---- MODULE Spec2Model ----
(***************************************************************************)
(* PyEdit (src/python_editor_tui.py): the line buffer, its edit            *)
(* operations, the key handler, file load/save, and the indentation        *)
(* cleanup and the syntax classifier built on the token stream of Python's *)
(* tokenize module.                                                        *)
(*                                                                         *)
(* A line of text is a sequence of one-character strings; a buffer is a    *)
(* record with the fields of the Buffer dataclass and one history field.   *)
(* Line and column                                                         *)
(* numbers are 0-based as in the source; TLA+ sequences are 1-based, so    *)
(* lines[cursor_y] of the source is lines[cursor_y + 1] here.              *)
(***************************************************************************)
EXTENDS Integers, Sequences, FiniteSets, TLC

VARIABLES
    buffers,      \* EditorState.buffers: sequence of Buffer records
    active,       \* EditorState.active: 0-based index into buffers
    clipboard,    \* EditorState.clipboard: sequence of lines
    last_search,  \* EditorState.last_search: a string (sequence of characters)
    status,       \* EditorState.status: a tag naming the message
    steps,        \* number of operations applied so far
    last,         \* history: the operation applied last and what it started from
    arg,          \* input of the operation under study (pure-function specifications)
    ret           \* its result

vars == <<buffers, active, clipboard, last_search, status, steps, last, arg, ret>>

-----------------------------------------------------------------------------
(* Bounds of the model *)

MaxLen == 6        \* edits that would make a line longer are not taken
MaxLines == 3      \* edits that would make a buffer longer are not taken
MaxEditSteps == 3  \* operations applied in SpecEdit

-----------------------------------------------------------------------------
(* Program constants *)

INDENT_WIDTH == 4
None == -1         \* Python's None in an int | None field

-----------------------------------------------------------------------------
(* Characters and Python's string primitives *)

SP == " "
TAB == "\t"
LF == "\n"
CR == "\r"
FF == "\f"

\* the characters str.rstrip() / str.strip() with no argument remove
Whitespace == {SP, TAB, LF, CR, FF}

Min(a, b) == IF a < b THEN a ELSE b
Max(a, b) == IF a > b THEN a ELSE b

\* " " * n
Spaces(n) == [i \in 1..Max(0, n) |-> SP]

\* s[:n] and s[n:] for n >= 0, with Python's clamping of a slice index past the end
Prefix(s, n) == SubSeq(s, 1, Min(n, Len(s)))
Suffix(s, n) == SubSeq(s, Min(n, Len(s)) + 1, Len(s))

\* number of leading characters of s that are in set S
LeadLen(s, S) ==
    IF \E i \in 1..Len(s) : s[i] \notin S
    THEN (CHOOSE i \in 1..Len(s) : s[i] \notin S /\ \A j \in 1..(i - 1) : s[j] \in S) - 1
    ELSE Len(s)

\* number of trailing characters of s that are in set S
TrailLen(s, S) ==
    IF \E i \in 1..Len(s) : s[i] \notin S
    THEN Len(s) - (CHOOSE i \in 1..Len(s) : s[i] \notin S /\ \A j \in (i + 1)..Len(s) : s[j] \in S)
    ELSE Len(s)

\* s.lstrip(chars) and s.rstrip(chars)
lstrip(s, S) == Suffix(s, LeadLen(s, S))
rstrip(s, S) == Prefix(s, Len(s) - TrailLen(s, S))

\* s.endswith(c) for a one-character c
endswith(s, c) == Len(s) > 0 /\ s[Len(s)] = c

\* list.insert / del list[i] / del list[i:j+1] on 0-based indexes
ListInsert(l, i, x) == Prefix(l, i) \o <<x>> \o Suffix(l, i)
ListPop(l, i) == Prefix(l, i) \o Suffix(l, i + 1)
ListDelRange(l, i, j) == Prefix(l, i) \o Suffix(l, j + 1)
ListSet(l, i, x) == [l EXCEPT ![i + 1] = x]

-----------------------------------------------------------------------------
(* Buffer: the dataclass and the operations on one buffer *)

\* saved_lines is a history field, not a field of the dataclass: the lines of the
\* buffer when it was last created, emptied by new_file_flow, loaded or saved
Buffer ==
    [lines |-> <<<<>>>>, file_path |-> None, cursor_y |-> 0, cursor_x |-> 0,
     preferred_x |-> 0, scroll_y |-> 0, scroll_x |-> 0, dirty |-> FALSE,
     selecting |-> FALSE, selection_start |-> None, selection_end |-> None,
     saved_lines |-> <<<<>>>>]

CurLine(buf) == buf.lines[buf.cursor_y + 1]

keep_cursor_in_bounds(buf) ==
    LET y == Max(0, Min(buf.cursor_y, Len(buf.lines) - 1))
        x == Max(0, Min(buf.cursor_x, Len(buf.lines[y + 1])))
    IN  [buf EXCEPT !.cursor_y = y, !.cursor_x = x]

clear_selection(buf) ==
    [buf EXCEPT !.selecting = FALSE, !.selection_start = None, !.selection_end = None]

has_selection(buf) == buf.selection_start # None /\ buf.selection_end # None

\* the ordered pair (start, end); only used where has_selection holds
selection_range(buf) ==
    IF buf.selection_start <= buf.selection_end
    THEN <<buf.selection_start, buf.selection_end>>
    ELSE <<buf.selection_end, buf.selection_start>>

\* update_selection moving the end of a selection that is no longer being dragged
update_selection_any(buf) ==
    IF buf.selection_start # None
    THEN [buf EXCEPT !.selection_end = buf.cursor_y]
    ELSE buf

update_selection(buf) ==
    IF buf.selecting /\ buf.selection_start # None
    THEN [buf EXCEPT !.selection_end = buf.cursor_y]
    ELSE buf

\* delete_selection without the refill of an emptied buffer (lines 202-203 left out)
delete_selection_no_refill(buf) ==
    IF ~has_selection(buf) THEN buf
    ELSE
    LET rng == selection_range(buf)
        start == Max(0, Min(rng[1], Len(buf.lines) - 1))
        end == Max(0, Min(rng[2], Len(buf.lines) - 1))
        rest == ListDelRange(buf.lines, start, end)
    IN  IF start > end THEN buf
        ELSE clear_selection(
                 [buf EXCEPT !.lines = rest,
                             !.cursor_y = Min(start, Len(rest) - 1),
                             !.cursor_x = 0,
                             !.preferred_x = 0,
                             !.dirty = TRUE])

\* delete_selection that leaves the last selected line in place (del lines[start:end])
delete_selection_keeps_end(buf) ==
    IF ~has_selection(buf) THEN buf
    ELSE
    LET rng == selection_range(buf)
        start == Max(0, Min(rng[1], Len(buf.lines) - 1))
        end == Max(0, Min(rng[2], Len(buf.lines) - 1))
        rest == ListDelRange(buf.lines, start, end - 1)
        kept == IF rest = <<>> THEN <<<<>>>> ELSE rest
    IN  IF start > end THEN buf
        ELSE clear_selection(
                 [buf EXCEPT !.lines = kept,
                             !.cursor_y = Min(start, Len(kept) - 1),
                             !.cursor_x = 0,
                             !.preferred_x = 0,
                             !.dirty = TRUE])

\* delete_selection leaving the cursor on the number of the first line removed
delete_selection_cursor_at_start(buf) ==
    IF ~has_selection(buf) THEN buf
    ELSE
    LET rng == selection_range(buf)
        start == Max(0, Min(rng[1], Len(buf.lines) - 1))
        end == Max(0, Min(rng[2], Len(buf.lines) - 1))
        rest == ListDelRange(buf.lines, start, end)
        kept == IF rest = <<>> THEN <<<<>>>> ELSE rest
    IN  IF start > end THEN buf
        ELSE clear_selection(
                 [buf EXCEPT !.lines = kept,
                             !.cursor_y = start,
                             !.cursor_x = 0,
                             !.preferred_x = 0,
                             !.dirty = TRUE])

delete_selection(buf) ==
    IF ~has_selection(buf) THEN buf
    ELSE
    LET rng == selection_range(buf)
        start == Max(0, Min(rng[1], Len(buf.lines) - 1))
        end == Max(0, Min(rng[2], Len(buf.lines) - 1))
        rest == ListDelRange(buf.lines, start, end)
        kept == IF rest = <<>> THEN <<<<>>>> ELSE rest
    IN  IF start > end THEN buf
        ELSE clear_selection(
                 [buf EXCEPT !.lines = kept,
                             !.cursor_y = Min(start, Len(kept) - 1),
                             !.cursor_x = 0,
                             !.preferred_x = 0,
                             !.dirty = TRUE])

insert_char(buf, ch) ==
    LET b == IF has_selection(buf) /\ ~buf.selecting THEN delete_selection(buf) ELSE buf
        line == CurLine(b)
        x == b.cursor_x + Len(ch)
    IN  [b EXCEPT !.lines = ListSet(b.lines, b.cursor_y,
                                    Prefix(line, b.cursor_x) \o ch \o Suffix(line, b.cursor_x)),
                  !.cursor_x = x,
                  !.preferred_x = x,
                  !.dirty = TRUE]

newline(buf) ==
    LET b == IF has_selection(buf) /\ ~buf.selecting THEN delete_selection(buf) ELSE buf
        line == CurLine(b)
        before == Prefix(line, b.cursor_x)
        after == Suffix(line, b.cursor_x)
        indent == Len(before) - Len(lstrip(before, {SP}))
        extra == IF endswith(rstrip(before, Whitespace), ":") THEN INDENT_WIDTH ELSE 0
    IN  [b EXCEPT !.lines = ListInsert(ListSet(b.lines, b.cursor_y, before),
                                       b.cursor_y + 1,
                                       Spaces(indent + extra) \o lstrip(after, {SP})),
                  !.cursor_y = b.cursor_y + 1,
                  !.cursor_x = indent + extra,
                  !.preferred_x = indent + extra,
                  !.dirty = TRUE]

\* backspace that removes the character before the cursor but leaves the column as it was
backspace_keeps_column(buf) ==
    IF has_selection(buf) /\ ~buf.selecting THEN delete_selection(buf)
    ELSE IF buf.cursor_x > 0 THEN
        LET line == CurLine(buf)
        IN  [buf EXCEPT !.lines = ListSet(buf.lines, buf.cursor_y,
                                          Prefix(line, buf.cursor_x - 1) \o Suffix(line, buf.cursor_x)),
                        !.dirty = TRUE]
    ELSE IF buf.cursor_y = 0 THEN buf
    ELSE
        LET prev_line == buf.lines[buf.cursor_y]
            curr_line == buf.lines[buf.cursor_y + 1]
        IN  [buf EXCEPT !.lines = ListPop(ListSet(buf.lines, buf.cursor_y - 1, prev_line \o curr_line),
                                          buf.cursor_y),
                        !.cursor_x = Len(prev_line),
                        !.cursor_y = buf.cursor_y - 1,
                        !.preferred_x = Len(prev_line),
                        !.dirty = TRUE]

\* backspace that, merging two lines, takes the column from the merged line
backspace_column_after_merge(buf) ==
    IF has_selection(buf) /\ ~buf.selecting THEN delete_selection(buf)
    ELSE IF buf.cursor_x > 0 THEN
        LET line == CurLine(buf)
        IN  [buf EXCEPT !.lines = ListSet(buf.lines, buf.cursor_y,
                                          Prefix(line, buf.cursor_x - 1) \o Suffix(line, buf.cursor_x)),
                        !.cursor_x = buf.cursor_x - 1,
                        !.preferred_x = buf.cursor_x - 1,
                        !.dirty = TRUE]
    ELSE IF buf.cursor_y = 0 THEN buf
    ELSE
        LET prev_line == buf.lines[buf.cursor_y]
            curr_line == buf.lines[buf.cursor_y + 1]
        IN  [buf EXCEPT !.lines = ListPop(ListSet(buf.lines, buf.cursor_y - 1, prev_line \o curr_line),
                                          buf.cursor_y),
                        !.cursor_x = Len(prev_line \o curr_line),
                        !.cursor_y = buf.cursor_y - 1,
                        !.preferred_x = Len(prev_line \o curr_line),
                        !.dirty = TRUE]

\* backspace that removes the character at the cursor instead of the one before it
backspace_removes_at_cursor(buf) ==
    IF has_selection(buf) /\ ~buf.selecting THEN delete_selection(buf)
    ELSE IF buf.cursor_x > 0 THEN
        LET line == CurLine(buf)
        IN  [buf EXCEPT !.lines = ListSet(buf.lines, buf.cursor_y,
                                          Prefix(line, buf.cursor_x) \o Suffix(line, buf.cursor_x + 1)),
                        !.cursor_x = buf.cursor_x - 1,
                        !.preferred_x = buf.cursor_x - 1,
                        !.dirty = TRUE]
    ELSE IF buf.cursor_y = 0 THEN buf
    ELSE
        LET prev_line == buf.lines[buf.cursor_y]
            curr_line == buf.lines[buf.cursor_y + 1]
        IN  [buf EXCEPT !.lines = ListPop(ListSet(buf.lines, buf.cursor_y - 1, prev_line \o curr_line),
                                          buf.cursor_y),
                        !.cursor_x = Len(prev_line),
                        !.cursor_y = buf.cursor_y - 1,
                        !.preferred_x = Len(prev_line),
                        !.dirty = TRUE]

\* backspace that marks the buffer dirty at the start of the buffer, where it has
\* nothing to remove
backspace_dirty_at_start(buf) ==
    IF has_selection(buf) /\ ~buf.selecting THEN delete_selection(buf)
    ELSE IF buf.cursor_x > 0 THEN
        LET line == CurLine(buf)
        IN  [buf EXCEPT !.lines = ListSet(buf.lines, buf.cursor_y,
                                          Prefix(line, buf.cursor_x - 1) \o Suffix(line, buf.cursor_x)),
                        !.cursor_x = buf.cursor_x - 1,
                        !.preferred_x = buf.cursor_x - 1,
                        !.dirty = TRUE]
    ELSE IF buf.cursor_y = 0 THEN [buf EXCEPT !.dirty = TRUE]
    ELSE
        LET prev_line == buf.lines[buf.cursor_y]
            curr_line == buf.lines[buf.cursor_y + 1]
        IN  [buf EXCEPT !.lines = ListPop(ListSet(buf.lines, buf.cursor_y - 1, prev_line \o curr_line),
                                          buf.cursor_y),
                        !.cursor_x = Len(prev_line),
                        !.cursor_y = buf.cursor_y - 1,
                        !.preferred_x = Len(prev_line),
                        !.dirty = TRUE]

backspace(buf) ==
    IF has_selection(buf) /\ ~buf.selecting THEN delete_selection(buf)
    ELSE IF buf.cursor_x > 0 THEN
        LET line == CurLine(buf)
        IN  [buf EXCEPT !.lines = ListSet(buf.lines, buf.cursor_y,
                                          Prefix(line, buf.cursor_x - 1) \o Suffix(line, buf.cursor_x)),
                        !.cursor_x = buf.cursor_x - 1,
                        !.preferred_x = buf.cursor_x - 1,
                        !.dirty = TRUE]
    ELSE IF buf.cursor_y = 0 THEN buf
    ELSE
        LET prev_line == buf.lines[buf.cursor_y]
            curr_line == buf.lines[buf.cursor_y + 1]
        IN  [buf EXCEPT !.lines = ListPop(ListSet(buf.lines, buf.cursor_y - 1, prev_line \o curr_line),
                                          buf.cursor_y),
                        !.cursor_x = Len(prev_line),
                        !.cursor_y = buf.cursor_y - 1,
                        !.preferred_x = Len(prev_line),
                        !.dirty = TRUE]

\* delete_forward that drops the next line instead of joining it to the current one
delete_forward_drops_next(buf) ==
    IF has_selection(buf) /\ ~buf.selecting THEN delete_selection(buf)
    ELSE
    LET line == CurLine(buf)
    IN  IF buf.cursor_x < Len(line) THEN
            [buf EXCEPT !.lines = ListSet(buf.lines, buf.cursor_y,
                                          Prefix(line, buf.cursor_x) \o Suffix(line, buf.cursor_x + 1)),
                        !.dirty = TRUE]
        ELSE IF buf.cursor_y >= Len(buf.lines) - 1 THEN buf
        ELSE [buf EXCEPT !.lines = ListPop(buf.lines, buf.cursor_y + 1), !.dirty = TRUE]

delete_forward(buf) ==
    IF has_selection(buf) /\ ~buf.selecting THEN delete_selection(buf)
    ELSE
    LET line == CurLine(buf)
    IN  IF buf.cursor_x < Len(line) THEN
            [buf EXCEPT !.lines = ListSet(buf.lines, buf.cursor_y,
                                          Prefix(line, buf.cursor_x) \o Suffix(line, buf.cursor_x + 1)),
                        !.dirty = TRUE]
        ELSE IF buf.cursor_y >= Len(buf.lines) - 1 THEN buf
        ELSE
            LET next_line == buf.lines[buf.cursor_y + 2]
            IN  [buf EXCEPT !.lines = ListPop(ListSet(buf.lines, buf.cursor_y, line \o next_line),
                                              buf.cursor_y + 1),
                            !.dirty = TRUE]

\* ensure_cursor_visible scrolling one position short when the cursor is past the window
ensure_cursor_visible_short(buf, body_h, editor_w) ==
    LET sy == IF buf.cursor_y < buf.scroll_y THEN buf.cursor_y
              ELSE IF buf.cursor_y >= buf.scroll_y + body_h THEN buf.cursor_y - body_h
              ELSE buf.scroll_y
        sx == IF buf.cursor_x < buf.scroll_x THEN buf.cursor_x
              ELSE IF buf.cursor_x >= buf.scroll_x + editor_w THEN buf.cursor_x - editor_w
              ELSE buf.scroll_x
    IN  [buf EXCEPT !.scroll_y = Max(0, sy), !.scroll_x = Max(0, sx)]

ensure_cursor_visible(buf, body_h, editor_w) ==
    LET sy == IF buf.cursor_y < buf.scroll_y THEN buf.cursor_y
              ELSE IF buf.cursor_y >= buf.scroll_y + body_h THEN buf.cursor_y - body_h + 1
              ELSE buf.scroll_y
        sx == IF buf.cursor_x < buf.scroll_x THEN buf.cursor_x
              ELSE IF buf.cursor_x >= buf.scroll_x + editor_w THEN buf.cursor_x - editor_w + 1
              ELSE buf.scroll_x
    IN  [buf EXCEPT !.scroll_y = Max(0, sy), !.scroll_x = Max(0, sx)]

reset_view(buf) ==
    [buf EXCEPT !.cursor_y = 0, !.cursor_x = 0, !.preferred_x = 0,
                !.scroll_y = 0, !.scroll_x = 0]

-----------------------------------------------------------------------------
(* Searching and replacing in a line *)

\* whether q occurs in line at 0-based column i
OccursAt(line, q, i) == i + Len(q) <= Len(line) /\ SubSeq(line, i + 1, i + Len(q)) = q

\* line.find(q, col): the lowest column >= col where q occurs, or -1
find(line, q, col) ==
    IF \E i \in col..Len(line) : OccursAt(line, q, i)
    THEN CHOOSE i \in col..Len(line) :
             OccursAt(line, q, i) /\ \A j \in col..(i - 1) : ~OccursAt(line, q, j)
    ELSE -1

\* line.replace(q, r) for a non-empty q: occurrences taken left to right, not overlapping
RECURSIVE replace(_, _, _)
replace(line, q, r) ==
    LET pos == find(line, q, 0)
    IN  IF pos = -1 THEN line
        ELSE Prefix(line, pos) \o r \o replace(Suffix(line, pos + Len(q)), q, r)

\* list[i:j] on 0-based indexes 0 <= i, with Python's clamping
ListSlice(l, i, j) == SubSeq(l, i + 1, Min(j, Len(l)))

-----------------------------------------------------------------------------
(* The token stream: tokenize.generate_tokens of the Python standard       *)
(* library (CPython 3.11, Lib/tokenize.py, _tokenize), on the characters   *)
(* the model uses: space, tab, the letters and digits below, '#', the      *)
(* double quote and one-character operators.  A letter is never a string   *)
(* prefix directly before a quote and a digit is never followed by a       *)
(* letter that would continue a number in the texts the model builds.      *)

QUOTE == "\""
HASH == "#"
TRIPLE == <<QUOTE, QUOTE, QUOTE>>
Letters == {"a", "b", "c", "d", "e", "f", "i", "l", "n", "p", "r", "s", "t", "u", "x", "y"}
Digits == {"1"}
TABSIZE == 8

Tok(type, string, sl, sc, el, ec) ==
    [type |-> type, string |-> string, start |-> <<sl, sc>>, end |-> <<el, ec>>]

\* the column after the run of characters of S that starts at column pos
RunEnd(line, pos, S) == pos + LeadLen(Suffix(line, pos), S)

\* the indentation column of a line: a tab moves to the next multiple of TABSIZE
RECURSIVE ColumnOf(_, _, _)
ColumnOf(line, pos, col) ==
    IF pos < Len(line) /\ line[pos + 1] = SP THEN ColumnOf(line, pos + 1, col + 1)
    ELSE IF pos < Len(line) /\ line[pos + 1] = TAB
         THEN ColumnOf(line, pos + 1, ((col \div TABSIZE) + 1) * TABSIZE)
    ELSE col

Emit(t, r) == [r EXCEPT !.toks = <<t>> \o r.toks]

\* the tokens of one line from column pos on (the inner loop over pseudo-tokens); cont is
\* the column where a triple-quoted string that does not end on this line starts, or -1
RECURSIVE ScanLine(_, _, _, _)
ScanLine(line, lnum, pos, parenlev) ==
    LET n == Len(line)
        ws == RunEnd(line, pos, {SP, TAB})
    IN  IF ws = n
        THEN [toks |-> <<Tok(IF parenlev > 0 THEN "NL" ELSE "NEWLINE", <<LF>>, lnum, ws, lnum, ws + 1)>>,
              parenlev |-> parenlev, cont |-> -1]
        ELSE
        LET c == line[ws + 1]
        IN  IF c = HASH THEN
                Emit(Tok("COMMENT", Suffix(line, ws), lnum, ws, lnum, n),
                     ScanLine(line, lnum, n, parenlev))
            ELSE IF c \in Digits THEN
                LET e == RunEnd(line, ws, Digits)
                IN  Emit(Tok("NUMBER", SubSeq(line, ws + 1, e), lnum, ws, lnum, e),
                         ScanLine(line, lnum, e, parenlev))
            ELSE IF c = QUOTE /\ OccursAt(line, TRIPLE, ws) THEN
                LET e == find(line, TRIPLE, ws + 3)
                IN  IF e >= 0
                    THEN Emit(Tok("STRING", SubSeq(line, ws + 1, e + 3), lnum, ws, lnum, e + 3),
                              ScanLine(line, lnum, e + 3, parenlev))
                    ELSE [toks |-> <<>>, parenlev |-> parenlev, cont |-> ws]
            ELSE IF c = QUOTE THEN
                LET e == find(line, <<QUOTE>>, ws + 1)
                IN  IF e >= 0
                    THEN Emit(Tok("STRING", SubSeq(line, ws + 1, e + 1), lnum, ws, lnum, e + 1),
                              ScanLine(line, lnum, e + 1, parenlev))
                    ELSE \* no pseudo-token matches at pos: the character at pos is an ERRORTOKEN
                         Emit(Tok("ERRORTOKEN", <<line[pos + 1]>>, lnum, pos, lnum, pos + 1),
                              ScanLine(line, lnum, pos + 1, parenlev))
            ELSE IF c \in Letters THEN
                LET e == RunEnd(line, ws, Letters \cup Digits)
                IN  Emit(Tok("NAME", SubSeq(line, ws + 1, e), lnum, ws, lnum, e),
                         ScanLine(line, lnum, e, parenlev))
            ELSE
                LET lev == IF c \in {"(", "[", "{"} THEN parenlev + 1
                           ELSE IF c \in {")", "]", "}"} THEN parenlev - 1
                           ELSE parenlev
                IN  Emit(Tok("OP", <<c>>, lnum, ws, lnum, ws + 1),
                         ScanLine(line, lnum, ws + 1, lev))

\* the indentation stack with every level above col popped
RECURSIVE PopIndents(_, _)
PopIndents(indents, col) ==
    IF col < indents[Len(indents)] THEN PopIndents(Prefix(indents, Len(indents) - 1), col)
    ELSE indents

InSeq(x, sq) == \E i \in DOMAIN sq : sq[i] = x

NoContStr == [start |-> <<0, 0>>, text |-> <<>>]

\* the outer loop over the physical lines; lnum is the 1-based number of the line read.
\* The result is the tokens yielded and the exception that ended the stream ("" if none).
RECURSIVE TokLoop(_, _, _, _, _, _)

\* the tokens pre, then those of line lnum from column pos on, then the lines after it
RECURSIVE TokRest(_, _, _, _, _, _, _)
TokRest(lines, lnum, indents, parenlev, acc, pos, pre) ==
    LET r == ScanLine(lines[lnum], lnum, pos, parenlev)
        cs == IF r.cont >= 0
              THEN [start |-> <<lnum, r.cont>>, text |-> Suffix(lines[lnum], r.cont) \o <<LF>>]
              ELSE NoContStr
    IN  TokLoop(lines, lnum + 1, indents, r.parenlev, cs, acc \o pre \o r.toks)

\* a line read while a triple-quoted string is open
TokInString(lines, lnum, indents, parenlev, contstr, acc) ==
    LET line == lines[lnum]
        e == find(line, TRIPLE, 0)
    IN  IF e >= 0
        THEN TokRest(lines, lnum, indents, parenlev, acc, e + 3,
                     <<Tok("STRING", contstr.text \o Prefix(line, e + 3),
                           contstr.start[1], contstr.start[2], lnum, e + 3)>>)
        ELSE TokLoop(lines, lnum + 1, indents, parenlev,
                     [contstr EXCEPT !.text = @ \o line \o <<LF>>], acc)

\* a line read at bracket depth 0: a new statement, with its indentation
TokStatement(lines, lnum, indents, acc) ==
    LET line == lines[lnum]
        pos == RunEnd(line, 0, {SP, TAB})
        column == ColumnOf(line, 0, 0)
        top == indents[Len(indents)]
        popped == PopIndents(indents, column)
    IN  IF pos = Len(line) \/ line[pos + 1] = HASH THEN
            \* a blank or comment-only line
            TokLoop(lines, lnum + 1, indents, 0, NoContStr,
                    acc \o (IF pos < Len(line)
                            THEN <<Tok("COMMENT", Suffix(line, pos), lnum, pos, lnum, Len(line))>>
                            ELSE <<>>)
                        \o <<Tok("NL", <<LF>>, lnum, Len(line), lnum, Len(line) + 1)>>)
        ELSE IF column > top THEN
            TokRest(lines, lnum, indents \o <<column>>, 0, acc, pos,
                    <<Tok("INDENT", Prefix(line, pos), lnum, 0, lnum, pos)>>)
        ELSE IF column < top /\ ~InSeq(column, indents) THEN
            [toks |-> acc, err |-> "IndentationError"]
        ELSE
            TokRest(lines, lnum, popped, 0, acc, pos,
                    [i \in 1..(Len(indents) - Len(popped)) |->
                         Tok("DEDENT", <<>>, lnum, pos, lnum, pos)])

TokLoop(lines, lnum, indents, parenlev, contstr, acc) ==
    IF lnum > Len(lines) THEN
        IF contstr # NoContStr THEN [toks |-> acc, err |-> "TokenError"]
        ELSE IF parenlev # 0 THEN [toks |-> acc, err |-> "TokenError"]
        ELSE [toks |-> acc
                       \o [i \in 1..(Len(indents) - 1) |-> Tok("DEDENT", <<>>, lnum, 0, lnum, 0)]
                       \o <<Tok("ENDMARKER", <<>>, lnum, 0, lnum, 0)>>,
              err |-> ""]
    ELSE IF contstr # NoContStr THEN TokInString(lines, lnum, indents, parenlev, contstr, acc)
    ELSE IF parenlev = 0 THEN TokStatement(lines, lnum, indents, acc)
    ELSE TokRest(lines, lnum, indents, parenlev, acc, 0, <<>>)

\* the lines tokenize reads from io.StringIO(text).readline, where text is
\* "\n".join(lines) with a "\n" appended unless it already ends with one
TextLines(lines) ==
    IF Len(lines) >= 2 /\ lines[Len(lines)] = <<>>
    THEN Prefix(lines, Len(lines) - 1)
    ELSE lines

generate_tokens(lines) == TokLoop(TextLines(lines), 1, <<0>>, 0, NoContStr, <<>>)

-----------------------------------------------------------------------------
(* The indentation analyzer and the cleanup built on it *)

\* dict.get(k, default) on a function used as a dict
Get(d, k, default) == IF k \in DOMAIN d THEN d[k] ELSE default

EmptyDict == <<>>

\* the body of the loop of compute_indents for one token
IndentStep(st, tok) ==
    LET start_line == tok.start[1]
        end_line == tok.end[1]
        paren_level ==
            IF tok.type = "OP" /\ tok.string \in {<<"(">>, <<"[">>, <<"{">>} THEN st.paren_level + 1
            ELSE IF tok.type = "OP" /\ tok.string \in {<<")">>, <<"]">>, <<"}">>}
                 THEN Max(0, st.paren_level - 1)
            ELSE st.paren_level
        skip1 == IF tok.type = "STRING" /\ start_line # end_line
                 THEN st.skip_lines \cup (start_line..end_line)
                 ELSE st.skip_lines
        skip_lines == IF paren_level > 0 THEN skip1 \cup {start_line} ELSE skip1
        current_indent ==
            IF tok.type = "INDENT" THEN st.current_indent + 1
            ELSE IF tok.type = "DEDENT" THEN Max(0, st.current_indent - 1)
            ELSE st.current_indent
        record ==
            IF tok.type \in {"INDENT", "DEDENT"} THEN start_line \notin skip_lines
            ELSE IF tok.type \notin {"NL", "NEWLINE", "ENCODING", "ENDMARKER"}
                 THEN start_line \notin skip_lines /\ start_line \notin DOMAIN st.line_indents
            ELSE FALSE
    IN  [line_indents |-> IF record
                          THEN (start_line :> current_indent) @@ st.line_indents
                          ELSE st.line_indents,
         skip_lines |-> skip_lines,
         current_indent |-> current_indent,
         paren_level |-> paren_level]

\* the state of the loop of compute_indents before its first token
IndentStart ==
    [line_indents |-> EmptyDict, skip_lines |-> {}, current_indent |-> 0, paren_level |-> 0]

\* the loop of compute_indents from token i on, st being the state reached before it
\* (st is read before the token is taken, so it is evaluated once, here)
RECURSIVE IndentLoop(_, _, _)
IndentLoop(toks, i, st) ==
    IF st.paren_level < 0 \/ i > Len(toks) THEN st
    ELSE IndentLoop(toks, i + 1, IndentStep(st, toks[i]))

\* compute_indents on the token stream g: ok is FALSE where the source returns None
IndentsOf(g, st) ==
    IF g.err # ""
    THEN [ok |-> FALSE, line_indents |-> EmptyDict, skip_lines |-> {}]
    ELSE [ok |-> TRUE, line_indents |-> st.line_indents, skip_lines |-> st.skip_lines]

IndentsFrom(g) == IndentsOf(g, IndentLoop(g.toks, 1, IndentStart))

compute_indents(lines) == IndentsFrom(generate_tokens(lines))

\* s.replace("\t", " " * INDENT_WIDTH)
RECURSIVE ExpandTabs(_)
ExpandTabs(s) ==
    IF s = <<>> THEN <<>>
    ELSE (IF Head(s) = TAB THEN Spaces(INDENT_WIDTH) ELSE <<Head(s)>>) \o ExpandTabs(Tail(s))

\* raw with the tabs of its leading run of spaces and tabs replaced by spaces
TabsNormalized(raw) ==
    LET prefix_len == Len(raw) - Len(lstrip(raw, {SP, TAB}))
    IN  ExpandTabs(Prefix(raw, prefix_len)) \o Suffix(raw, prefix_len)

\* the fallback line without the rstrip() of line 463
CleanLineFallback_no_rstrip(raw) == TabsNormalized(raw)

\* one line of the fallback taken when the token stream cannot be built
CleanLineFallback(raw) == rstrip(TabsNormalized(raw), Whitespace)

\* the normal path without the test of skip_lines (lines 469-471 left out)
CleanLine_ignores_skip(raw, idx, line_indents, skip_lines) ==
    LET stripped == rstrip(TabsNormalized(raw), Whitespace)
        indent_level == Get(line_indents, idx, 0)
        content == lstrip(stripped, {SP})
    IN  IF stripped = <<>> THEN <<>>
        ELSE Spaces(indent_level * INDENT_WIDTH) \o content

\* the normal path without the conversion of leading tabs (lines 473-475 left out)
CleanLine_keeps_tabs(raw, idx, line_indents, skip_lines) ==
    IF idx \in skip_lines THEN raw
    ELSE
    LET stripped == rstrip(raw, Whitespace)
        indent_level == Get(line_indents, idx, 0)
        content == lstrip(stripped, {SP})
    IN  IF stripped = <<>> THEN <<>>
        ELSE Spaces(indent_level * INDENT_WIDTH) \o content

\* the normal path with the leading tabs of a skipped line converted to spaces
CleanLine_skipped_tabs_converted(raw, idx, line_indents, skip_lines) ==
    IF idx \in skip_lines THEN TabsNormalized(raw)
    ELSE
    LET stripped == rstrip(TabsNormalized(raw), Whitespace)
        indent_level == Get(line_indents, idx, 0)
        content == lstrip(stripped, {SP})
    IN  IF stripped = <<>> THEN <<>>
        ELSE Spaces(indent_level * INDENT_WIDTH) \o content

\* one line (1-based number idx) of the normal path
CleanLine(raw, idx, line_indents, skip_lines) ==
    IF idx \in skip_lines THEN raw
    ELSE
    LET stripped == rstrip(TabsNormalized(raw), Whitespace)
        indent_level == Get(line_indents, idx, 0)
        content == lstrip(stripped, {SP})
    IN  IF stripped = <<>> THEN <<>>
        ELSE Spaces(indent_level * INDENT_WIDTH) \o content

OrEmptyLine(cleaned) == IF cleaned = <<>> THEN <<<<>>>> ELSE cleaned

\* a line that is not empty
NonEmptyLine(line) == line # <<>>

\* cleanup_indentation leaving out the lines that come out empty
CleanupWith_drops_empty(lines, computed) ==
    IF ~computed.ok
    THEN [cleaned |-> OrEmptyLine(SelectSeq([i \in DOMAIN lines |-> CleanLineFallback(lines[i])],
                                            NonEmptyLine)),
          message |-> "Cleanup: normalized tabs + trailing whitespace (parse failed)."]
    ELSE [cleaned |-> OrEmptyLine(SelectSeq([i \in DOMAIN lines |->
                          CleanLine(lines[i], i, computed.line_indents, computed.skip_lines)],
                                            NonEmptyLine)),
          message |-> "Indentation normalized to 4 spaces."]

\* cleanup_indentation once compute_indents has returned computed
CleanupWith(lines, computed) ==
    IF ~computed.ok
    THEN [cleaned |-> OrEmptyLine([i \in DOMAIN lines |-> CleanLineFallback(lines[i])]),
          message |-> "Cleanup: normalized tabs + trailing whitespace (parse failed)."]
    ELSE [cleaned |-> OrEmptyLine([i \in DOMAIN lines |->
                          CleanLine(lines[i], i, computed.line_indents, computed.skip_lines)]),
          message |-> "Indentation normalized to 4 spaces."]

cleanup_indentation(lines) == CleanupWith(lines, compute_indents(lines))

\* cleanup_flow on the active buffer buf once cleanup_indentation has returned r
\* the buffer after cleanup_flow if it stored the cleaned lines without setting dirty
CleanupApply_keeps_clean(buf, r) ==
    keep_cursor_in_bounds(
        IF r.cleaned # buf.lines
        THEN [buf EXCEPT !.lines = r.cleaned]
        ELSE buf)

CleanupApply(buf, r) ==
    keep_cursor_in_bounds(
        IF r.cleaned # buf.lines
        THEN [buf EXCEPT !.lines = r.cleaned, !.dirty = TRUE]
        ELSE buf)

-----------------------------------------------------------------------------
(* The syntax classifier: build_syntax_spans *)

\* the words of keyword.kwlist that can be written with Letters
kwlist ==
    { <<"a", "s">>, <<"a", "s", "s", "e", "r", "t">>, <<"a", "s", "y", "n", "c">>,
      <<"c", "l", "a", "s", "s">>, <<"d", "e", "f">>, <<"d", "e", "l">>,
      <<"e", "l", "i", "f">>, <<"e", "l", "s", "e">>, <<"e", "x", "c", "e", "p", "t">>,
      <<"f", "i", "n", "a", "l", "l", "y">>, <<"i", "f">>, <<"i", "n">>, <<"i", "s">>,
      <<"p", "a", "s", "s">>, <<"r", "a", "i", "s", "e">>,
      <<"r", "e", "t", "u", "r", "n">>, <<"t", "r", "y">>, <<"y", "i", "e", "l", "d">> }

\* names of the builtins module (the editor runs as a script, where __builtins__ is
\* that module) that can be written with Letters
builtins ==
    { <<"a", "b", "s">>, <<"a", "l", "l">>, <<"a", "n", "y">>,
      <<"a", "s", "c", "i", "i">>, <<"b", "i", "n">>, <<"b", "y", "t", "e", "s">>,
      <<"d", "i", "c", "t">>, <<"d", "i", "r">>, <<"i", "d">>,
      <<"i", "n", "p", "u", "t">>, <<"i", "n", "t">>, <<"i", "t", "e", "r">>,
      <<"l", "e", "n">>, <<"l", "i", "s", "t">>, <<"p", "r", "i", "n", "t">>,
      <<"r", "e", "p", "r">>, <<"s", "e", "t">>, <<"s", "l", "i", "c", "e">>,
      <<"s", "t", "r">>, <<"s", "u", "p", "e", "r">>, <<"t", "u", "p", "l", "e">> }

TokenSpan(start, end, style) == [start |-> start, end |-> end, style |-> style]

\* add_span without its guard against an empty span
add_span_unguarded(spans, line_no, start_col, end_col, style) ==
    (line_no :> Append(Get(spans, line_no, <<>>), TokenSpan(start_col, end_col, style)))
        @@ spans

\* add_span on the dict spans
add_span(spans, line_no, start_col, end_col, style) ==
    IF end_col <= start_col THEN spans
    ELSE (line_no :> Append(Get(spans, line_no, <<>>), TokenSpan(start_col, end_col, style)))
             @@ spans

\* the style of a token if every operator token were styled as a decorator
StyleOf_every_op_decorator(tok, pending_def, pending_class) ==
    IF tok.type = "COMMENT" THEN "comment"
    ELSE IF tok.type = "STRING" THEN "string"
    ELSE IF tok.type = "NUMBER" THEN "number"
    ELSE IF tok.type = "OP" THEN "decorator"
    ELSE IF tok.type = "NAME" THEN
        IF tok.string \in kwlist THEN "keyword"
        ELSE IF pending_def THEN "defname"
        ELSE IF pending_class THEN "classname"
        ELSE IF tok.string \in builtins THEN "builtin"
        ELSE ""
    ELSE ""

\* the style of a token if a builtin name were recognised before the pending flags
StyleOf_builtin_first(tok, pending_def, pending_class) ==
    IF tok.type = "COMMENT" THEN "comment"
    ELSE IF tok.type = "STRING" THEN "string"
    ELSE IF tok.type = "NUMBER" THEN "number"
    ELSE IF tok.type = "OP" /\ tok.string = <<"@">> THEN "decorator"
    ELSE IF tok.type = "NAME" THEN
        IF tok.string \in kwlist THEN "keyword"
        ELSE IF tok.string \in builtins THEN "builtin"
        ELSE IF pending_def THEN "defname"
        ELSE IF pending_class THEN "classname"
        ELSE ""
    ELSE ""

\* the style of a token, given the pending flags ("" for a token that gets no span)
StyleOf(tok, pending_def, pending_class) ==
    IF tok.type = "COMMENT" THEN "comment"
    ELSE IF tok.type = "STRING" THEN "string"
    ELSE IF tok.type = "NUMBER" THEN "number"
    ELSE IF tok.type = "OP" /\ tok.string = <<"@">> THEN "decorator"
    ELSE IF tok.type = "NAME" THEN
        IF tok.string \in kwlist THEN "keyword"
        ELSE IF pending_def THEN "defname"
        ELSE IF pending_class THEN "classname"
        ELSE IF tok.string \in builtins THEN "builtin"
        ELSE ""
    ELSE ""

\* the spans of the lines strictly between the first and the last line of a token
RECURSIVE MiddleSpans(_, _, _, _, _)
MiddleSpans(spans, lines, line_no, end_line, style) ==
    IF line_no >= end_line THEN spans
    ELSE MiddleSpans(IF 0 <= line_no - 1 /\ line_no - 1 < Len(lines)
                     THEN add_span(spans, line_no, 0, Len(lines[line_no]), style)
                     ELSE spans,
                     lines, line_no + 1, end_line, style)

\* the spans of one styled token if a token over several lines were given a span on
\* its first line only
TokenSpans_first_line_only(spans, lines, tok, style) ==
    IF tok.start[1] = tok.end[1]
    THEN add_span(spans, tok.start[1], tok.start[2], tok.end[2], style)
    ELSE add_span(spans, tok.start[1], tok.start[2], Len(lines[tok.start[1]]), style)

\* the spans of one styled token
TokenSpans(spans, lines, tok, style) ==
    LET start_line == tok.start[1]
        start_col == tok.start[2]
        end_line == tok.end[1]
        end_col == tok.end[2]
        first == IF 0 <= start_line - 1 /\ start_line - 1 < Len(lines)
                 THEN add_span(spans, start_line, start_col, Len(lines[start_line]), style)
                 ELSE spans
    IN  IF start_line = end_line THEN add_span(spans, start_line, start_col, end_col, style)
        ELSE add_span(MiddleSpans(first, lines, start_line + 1, end_line, style),
                      end_line, 0, end_col, style)

\* the body of the loop of build_syntax_spans for one token
SpanStep(st, lines, tok) ==
    LET style == StyleOf(tok, st.pending_def, st.pending_class)
        is_name == tok.type = "NAME"
        is_kw == is_name /\ tok.string \in kwlist
    IN  [spans |-> IF style = "" THEN st.spans ELSE TokenSpans(st.spans, lines, tok, style),
         pending_def |->
             IF is_kw THEN (IF tok.string = <<"d", "e", "f">> THEN TRUE
                            ELSE IF tok.string = <<"c", "l", "a", "s", "s">> THEN FALSE
                            ELSE st.pending_def)
             ELSE IF is_name /\ st.pending_def THEN FALSE
             ELSE st.pending_def,
         pending_class |->
             IF is_kw THEN (IF tok.string = <<"d", "e", "f">> THEN FALSE
                            ELSE IF tok.string = <<"c", "l", "a", "s", "s">> THEN TRUE
                            ELSE st.pending_class)
             ELSE IF is_name /\ ~st.pending_def /\ st.pending_class THEN FALSE
             ELSE st.pending_class]

SpanStart == [spans |-> EmptyDict, pending_def |-> FALSE, pending_class |-> FALSE]

\* the loop of build_syntax_spans from token i on, st being the state reached before it
\* (st is read before the token is taken, so it is evaluated once, here)
RECURSIVE SpanLoop(_, _, _, _)
SpanLoop(toks, lines, i, st) ==
    IF st.pending_def \notin BOOLEAN \/ i > Len(toks) THEN st
    ELSE SpanLoop(toks, lines, i + 1, SpanStep(st, lines, toks[i]))

\* list.sort(key=lambda span: span.start): a stable sort, here by insertion
RECURSIVE SortedInsert(_, _)
SortedInsert(sorted, span) ==
    IF sorted = <<>> THEN <<span>>
    ELSE IF sorted[Len(sorted)].start <= span.start THEN Append(sorted, span)
    ELSE Append(SortedInsert(Prefix(sorted, Len(sorted) - 1), span), sorted[Len(sorted)])

RECURSIVE SortByStart(_)
SortByStart(spans) ==
    IF spans = <<>> THEN <<>>
    ELSE SortedInsert(SortByStart(Prefix(spans, Len(spans) - 1)), spans[Len(spans)])

\* build_syntax_spans returning what it collected when the token stream fails
SpansOf_partial(g, st) ==
    [line_no \in DOMAIN st.spans |-> SortByStart(st.spans[line_no])]

\* what build_syntax_spans returns once the token stream g has been walked to state st
SpansOf(g, st) ==
    IF g.err # "" THEN EmptyDict
    ELSE [line_no \in DOMAIN st.spans |-> SortByStart(st.spans[line_no])]

SpansFrom(lines, g) == SpansOf(g, SpanLoop(g.toks, lines, 1, SpanStart))

build_syntax_spans(lines) == SpansFrom(lines, generate_tokens(lines))

-----------------------------------------------------------------------------
(* Files *)

\* "\n".join(lines)
RECURSIVE Join(_)
Join(lines) ==
    IF lines = <<>> THEN <<>>
    ELSE IF Len(lines) = 1 THEN lines[1]
    ELSE lines[1] \o <<LF>> \o Join(Tail(lines))

\* what Path.read_text returns for the stored characters: text mode with universal
\* newlines turns "\r\n" and a lone "\r" into "\n"
RECURSIVE read_text(_)
read_text(data) ==
    IF data = <<>> THEN <<>>
    ELSE IF Head(data) = CR
         THEN <<LF>> \o read_text(IF Len(data) >= 2 /\ data[2] = LF THEN Tail(Tail(data)) ELSE Tail(data))
    ELSE <<Head(data)>> \o read_text(Tail(data))

\* the characters of the model, and those among them str.splitlines() splits at
Chars == Whitespace \cup Letters \cup Digits \cup {":", "(", ")", "[", "]", "{", "}", QUOTE, HASH}
LineBreaks == {LF, CR, FF}

\* text.splitlines(): the pieces between line boundaries ("\r\n" is one boundary);
\* no empty piece follows a boundary that ends the text
RECURSIVE splitlines(_)
splitlines(text) ==
    IF text = <<>> THEN <<>>
    ELSE
    LET n == LeadLen(text, Chars \ LineBreaks)
        brk == IF n < Len(text) /\ text[n + 1] = CR /\ n + 1 < Len(text) /\ text[n + 2] = LF
               THEN 2 ELSE 1
    IN  <<Prefix(text, n)>> \o splitlines(Suffix(text, n + brk))

\* load_file without the empty line appended for a text that ends with "\n"
load_file_no_trailing_line(data) ==
    LET lines == splitlines(read_text(data))
    IN  IF lines = <<>> THEN <<<<>>>> ELSE lines

\* load_file applied to a file holding data
load_file(data) ==
    LET text == read_text(data)
        lines == splitlines(text) \o (IF endswith(text, LF) THEN <<<<>>>> ELSE <<>>)
    IN  IF lines = <<>> THEN <<<<>>>> ELSE lines

\* what save_file writes for lines (on a POSIX system "\n" is written as it is)
save_file(lines) == Join(lines)

-----------------------------------------------------------------------------
(* Predicates on buffers *)

LongestLine(lines) == IF lines = <<>> THEN 0
                      ELSE CHOOSE n \in {Len(lines[i]) : i \in DOMAIN lines} :
                               \A i \in DOMAIN lines : Len(lines[i]) <= n

\* the model's size bounds
WithinBounds(buf) == Len(buf.lines) <= MaxLines /\ LongestLine(buf.lines) <= MaxLen

\* section 3 of the design: 0 <= line < len(lines), 0 <= column <= len(lines[line])
CursorInBounds(buf) ==
    /\ 0 <= buf.cursor_y /\ buf.cursor_y < Len(buf.lines)
    /\ 0 <= buf.cursor_x /\ buf.cursor_x <= Len(buf.lines[buf.cursor_y + 1])

-----------------------------------------------------------------------------
(* Spec: the editor driven by key events.  Every action is handle_input    *)
(* for one key, with the answers given to the prompts it opens and the     *)
(* body size draw() reported; the state is EditorState.  F12 (help line),  *)
(* F5 (run) and Ctrl+Q (quit) are left out.                                *)

MaxKeys == 3       \* key events handled in Spec
MaxTabs == 2       \* Ctrl+T is not taken when it would open more tabs

\* (body_h, editor_w) handed to handle_input: draw() returns (0, 0) for a terminal
\* below 60 columns or 11 rows and app() raises both to 1; otherwise body_h is at
\* least 5 and editor_w at least 52
Dims == {<<1, 1>>, <<5, 52>>}

\* the file the editor is started on or opens: its characters (one file is empty)
FileTexts == { <<>>,
               <<"a", ":", LF, TAB, "a">>,
               <<"(", "a", LF, SP, "a", SP, LF>> }
KeyChars == {"a", ":", SP}
\* what prompt_input returns (stripped of surrounding whitespace) for a search
Queries == {<<"a">>, <<":">>}
Replacements == {<<>>, <<"a", "a">>}
Path1 == 1

InitCommon ==
    /\ active = 0
    /\ clipboard = <<>>
    /\ last_search = <<>>
    /\ steps = 0
    /\ arg = <<>>
    /\ ret = <<>>

Act == buffers[active + 1]
\* storing the buffer handled in the first tab whichever tab is active
WithAct_first_tab(b) == [buffers EXCEPT ![1] = b]

WithAct(b) == [buffers EXCEPT ![active + 1] = b]

\* app() up to its first draw(): no start path, a start path that names a file
\* holding one of FileTexts, or one that names no file
Init ==
    /\ InitCommon
    /\ \/ buffers = <<Buffer>> /\ status = "Ready"
       \/ \E t \in FileTexts :
              /\ buffers = <<[Buffer EXCEPT !.lines = load_file(t), !.file_path = Path1,
                                            !.saved_lines = load_file(t)]>>
              /\ status = "Opened"
       \/ buffers = <<[Buffer EXCEPT !.file_path = Path1]>> /\ status = "New file"
    /\ last = [op |-> "init"]

\* one key event handled: the new EditorState
Handled(op, bufs, act, clip, search, st) ==
    /\ steps < MaxKeys
    /\ Len(bufs) <= MaxTabs
    /\ \A i \in DOMAIN bufs : WithinBounds(bufs[i])
    /\ buffers' = bufs
    /\ active' = act
    /\ clipboard' = clip
    /\ last_search' = search
    /\ status' = st
    /\ steps' = steps + 1
    /\ last' = [op |-> op]
    /\ UNCHANGED <<arg, ret>>

\* the end of handle_input for the navigation and edit keys
Finish(buf, body_h, editor_w) ==
    ensure_cursor_visible(keep_cursor_in_bounds(update_selection(buf)), body_h, editor_w)

NavKeys == {"KEY_UP", "KEY_DOWN", "KEY_LEFT", "KEY_RIGHT", "KEY_HOME", "KEY_END",
            "KEY_PPAGE", "KEY_NPAGE"}

\* the branch of handle_input for a navigation key
Navigate(buf, key, body_h) ==
    LET vertical(y) ==
            [buf EXCEPT !.cursor_y = y,
                        !.cursor_x = Min(Len(buf.lines[y + 1]), buf.preferred_x)]
        horizontal(y, x) == [buf EXCEPT !.cursor_y = y, !.cursor_x = x, !.preferred_x = x]
    IN  CASE key = "KEY_UP" -> vertical(Max(0, buf.cursor_y - 1))
          [] key = "KEY_DOWN" -> vertical(Min(Len(buf.lines) - 1, buf.cursor_y + 1))
          [] key = "KEY_LEFT" ->
                 IF buf.cursor_x > 0 THEN horizontal(buf.cursor_y, buf.cursor_x - 1)
                 ELSE IF buf.cursor_y > 0
                      THEN horizontal(buf.cursor_y - 1, Len(buf.lines[buf.cursor_y]))
                 ELSE horizontal(buf.cursor_y, buf.cursor_x)
          [] key = "KEY_RIGHT" ->
                 IF buf.cursor_x < Len(CurLine(buf)) THEN horizontal(buf.cursor_y, buf.cursor_x + 1)
                 ELSE IF buf.cursor_y < Len(buf.lines) - 1 THEN horizontal(buf.cursor_y + 1, 0)
                 ELSE horizontal(buf.cursor_y, buf.cursor_x)
          [] key = "KEY_HOME" -> horizontal(buf.cursor_y, 0)
          [] key = "KEY_END" -> horizontal(buf.cursor_y, Len(CurLine(buf)))
          [] key = "KEY_PPAGE" -> vertical(Max(0, buf.cursor_y - body_h))
          [] key = "KEY_NPAGE" -> vertical(Min(Len(buf.lines) - 1, buf.cursor_y + body_h))

EditKey(op, b) ==
    \E d \in Dims :
        Handled(op, WithAct(Finish(b, d[1], d[2])), active, clipboard, last_search, status)

KeyNavigate ==
    \E key \in NavKeys, d \in Dims :
        Handled(key, WithAct(Finish(Navigate(Act, key, d[1]), d[1], d[2])),
                active, clipboard, last_search, status)

KeyNewline == EditKey("newline", newline(Act))
KeyBackspace == EditKey("backspace", backspace(Act))
KeyDeleteForward == EditKey("delete_forward", delete_forward(Act))
KeyTab == EditKey("tab", insert_char(Act, Spaces(INDENT_WIDTH)))
KeyChar == \E c \in KeyChars : EditKey("char", insert_char(Act, <<c>>))

\* chr(key) for the printable key codes the model uses
chr == (32 :> SP) @@ (58 :> ":") @@ (97 :> "a") @@ (126 :> "~")

\* the last two branches of handle_input with the Tab key inserting a tab character
text_key_literal_tab(buf, key) ==
    IF key = 9 THEN insert_char(buf, <<TAB>>)
    ELSE IF 32 <= key /\ key <= 126 THEN insert_char(buf, <<chr[key]>>)
    ELSE buf

\* the last two branches of handle_input (Tab, a printable character), for a key code
\* that no earlier branch takes
text_key(buf, key) ==
    IF key = 9 THEN insert_char(buf, Spaces(INDENT_WIDTH))
    ELSE IF 32 <= key /\ key <= 126 THEN insert_char(buf, <<chr[key]>>)
    ELSE buf

\* save_flow clearing the dirty flag before the write is attempted
CtrlS_clears_dirty_first ==
    \E answered \in BOOLEAN, written \in BOOLEAN :
        LET buf == Act
            b1 == IF buf.file_path = None THEN [buf EXCEPT !.file_path = Path1] ELSE buf
        IN  IF buf.file_path = None /\ ~answered
            THEN Handled("save", buffers, active, clipboard, last_search, "Save canceled.")
            ELSE IF ~written
            THEN Handled("save", WithAct([b1 EXCEPT !.dirty = FALSE]), active, clipboard,
                         last_search, "Save failed")
            ELSE Handled("save", WithAct([b1 EXCEPT !.dirty = FALSE, !.saved_lines = b1.lines]),
                         active, clipboard, last_search, "Saved")

\* save_flow: Ctrl+S; the prompt for a path is answered or left empty, the write
\* succeeds or raises OSError
CtrlS ==
    \E answered \in BOOLEAN, written \in BOOLEAN :
        LET buf == Act
            b1 == IF buf.file_path = None THEN [buf EXCEPT !.file_path = Path1] ELSE buf
        IN  IF buf.file_path = None /\ ~answered
            THEN Handled("save", buffers, active, clipboard, last_search, "Save canceled.")
            ELSE IF ~written
            THEN Handled("save", WithAct(b1), active, clipboard, last_search, "Save failed")
            ELSE Handled("save", WithAct([b1 EXCEPT !.dirty = FALSE, !.saved_lines = b1.lines]),
                         active, clipboard, last_search, "Saved")

\* new_file_flow on the active buffer: the new buffers and the status
new_file_flow(confirmed) ==
    IF Act.dirty /\ ~confirmed
    THEN <<buffers, "New file canceled.">>
    ELSE <<WithAct(clear_selection(reset_view(
               [Act EXCEPT !.lines = <<<<>>>>, !.file_path = None, !.dirty = FALSE,
                           !.saved_lines = <<<<>>>>]))),
           "New file ready.">>

CtrlN ==
    \E confirmed \in BOOLEAN :
        LET r == new_file_flow(confirmed)
        IN  Handled("new", r[1], active, clipboard, last_search, r[2])

\* open_flow: Ctrl+O; the file does not exist, or exists and holds one of FileTexts,
\* or exists and reading it raises OSError
CtrlO ==
    \E confirmed \in BOOLEAN, answered \in BOOLEAN, exists \in BOOLEAN,
       readable \in BOOLEAN, data \in FileTexts :
        LET buf == Act
            opened(lines) ==
                clear_selection(reset_view(
                    [buf EXCEPT !.lines = lines, !.file_path = Path1, !.dirty = FALSE,
                                !.saved_lines = lines]))
        IN  IF (buf.dirty /\ ~confirmed) \/ ~answered
            THEN Handled("open", buffers, active, clipboard, last_search, "Open canceled.")
            ELSE IF exists /\ ~readable
            THEN Handled("open", buffers, active, clipboard, last_search, "Open failed")
            ELSE IF ~exists
            THEN Handled("open", WithAct(opened(<<<<>>>>)), active, clipboard, last_search, "New file")
            ELSE Handled("open", WithAct(opened(load_file(data))), active, clipboard,
                         last_search, "Opened")

\* new_tab_flow: Ctrl+T
CtrlT ==
    Handled("new_tab", buffers \o <<Buffer>>, Len(buffers), clipboard, last_search, "New tab")

\* close_tab_flow: Ctrl+W; closing the only tab is new_file_flow, which asks again
CtrlW ==
    \E confirmed \in BOOLEAN, confirmed2 \in BOOLEAN :
        IF Act.dirty /\ ~confirmed
        THEN Handled("close_tab", buffers, active, clipboard, last_search, "Close canceled.")
        ELSE IF Len(buffers) = 1
        THEN LET r == new_file_flow(confirmed2)
             IN  Handled("close_tab", r[1], active, clipboard, last_search, r[2])
        ELSE LET rest == ListPop(buffers, active)
             IN  Handled("close_tab", rest, Max(0, Min(active, Len(rest) - 1)), clipboard,
                         last_search, "Switched to tab")

\* switch_tab that does not wrap around the ends of the buffer set
switch_tab_no_wrap(delta) ==
    Handled("switch_tab", buffers, active + delta, clipboard, last_search, "Switched to tab")

\* switch_tab: F7 (delta -1) and F8 (delta 1)
switch_tab(delta) ==
    Handled("switch_tab", buffers, (active + delta) % Len(buffers), clipboard, last_search,
            "Switched to tab")

KeyF7 == switch_tab(-1)
KeyF8 == switch_tab(1)

\* find_next searching from the cursor's column instead of the column after it
find_next_from_cursor(buf, query) ==
    LET start_line == buf.cursor_y
        start_col == buf.cursor_x
        col(i) == IF i = start_line THEN start_col ELSE 0
        hits1 == {i \in start_line..(Len(buf.lines) - 1) : find(buf.lines[i + 1], query, col(i)) # -1}
        hits2 == {i \in 0..start_line : find(buf.lines[i + 1], query, 0) # -1}
        first(S) == CHOOSE i \in S : \A j \in S : i <= j
        at(i, c) == [buf EXCEPT !.cursor_y = i,
                                !.cursor_x = find(buf.lines[i + 1], query, c),
                                !.preferred_x = find(buf.lines[i + 1], query, c)]
    IN  IF hits1 # {} THEN <<at(first(hits1), col(first(hits1))), "Found">>
        ELSE IF hits2 # {} THEN <<at(first(hits2), 0), "Wrapped">>
        ELSE <<buf, "not found">>

\* find_next on buf with a non-empty query: the buffer and the status
find_next(buf, query) ==
    LET start_line == buf.cursor_y
        start_col == buf.cursor_x + 1
        col(i) == IF i = start_line THEN start_col ELSE 0
        hits1 == {i \in start_line..(Len(buf.lines) - 1) : find(buf.lines[i + 1], query, col(i)) # -1}
        hits2 == {i \in 0..start_line : find(buf.lines[i + 1], query, 0) # -1}
        first(S) == CHOOSE i \in S : \A j \in S : i <= j
        at(i, c) == [buf EXCEPT !.cursor_y = i,
                                !.cursor_x = find(buf.lines[i + 1], query, c),
                                !.preferred_x = find(buf.lines[i + 1], query, c)]
    IN  IF hits1 # {} THEN <<at(first(hits1), col(first(hits1))), "Found">>
        ELSE IF hits2 # {} THEN <<at(first(hits2), 0), "Wrapped">>
        ELSE <<buf, "not found">>

\* F4
KeyF4 ==
    IF last_search = <<>>
    THEN Handled("find_next", buffers, active, clipboard, last_search, "Find: no search term.")
    ELSE LET r == find_next(Act, last_search)
         IN  Handled("find_next", WithAct(r[1]), active, clipboard, last_search, r[2])

\* search_flow: Ctrl+F; an empty answer cancels
CtrlF ==
    \E query \in Queries \cup {<<>>} :
        IF query = <<>>
        THEN Handled("search", buffers, active, clipboard, last_search, "Find canceled.")
        ELSE LET r == find_next(Act, query)
             IN  Handled("search", WithAct(r[1]), active, clipboard, query, r[2])

\* replace_flow: Ctrl+H
CtrlH ==
    \E query \in Queries \cup {<<>>}, replacement \in Replacements :
        IF query = <<>>
        THEN Handled("replace", buffers, active, clipboard, last_search, "Replace canceled.")
        ELSE LET buf == Act
                 new_lines == [i \in DOMAIN buf.lines |-> replace(buf.lines[i], query, replacement)]
                 found == \E i \in DOMAIN buf.lines : find(buf.lines[i], query, 0) # -1
             IN  Handled("replace",
                         WithAct([buf EXCEPT !.lines = new_lines, !.dirty = buf.dirty \/ found]),
                         active, clipboard, query, "Replaced")

\* goto_flow: Ctrl+G with a number typed
CtrlG ==
    \E n \in -1..(MaxLines + 1) :
        LET buf == Act
            line_no == Max(1, Min(n, Len(buf.lines)))
        IN  Handled("goto",
                    WithAct([buf EXCEPT !.cursor_y = line_no - 1, !.cursor_x = 0, !.preferred_x = 0]),
                    active, clipboard, last_search, "Jumped to line")

\* goto_flow with an empty answer or one that is no number
CtrlGRefused ==
    \E raw \in {"", "x"} :
        Handled("goto", buffers, active, clipboard, last_search,
                IF raw = "" THEN "Go to canceled." ELSE "Go to failed (invalid number).")

\* copy_selection: Ctrl+C
CtrlC ==
    IF ~has_selection(Act)
    THEN Handled("copy", buffers, active, clipboard, last_search, "Copy: no selection.")
    ELSE LET rng == selection_range(Act)
         IN  Handled("copy", buffers, active, ListSlice(Act.lines, rng[1], rng[2] + 1),
                     last_search, "Copied lines")

\* cut_selection taking lines[start : end] for the clipboard
CtrlX_clipboard_without_last ==
    IF ~has_selection(Act)
    THEN Handled("cut", buffers, active, clipboard, last_search, "Cut: no selection.")
    ELSE LET rng == selection_range(Act)
         IN  Handled("cut", WithAct(delete_selection(Act)), active,
                     ListSlice(Act.lines, rng[1], rng[2]), last_search, "Cut lines")

\* cut_selection: Ctrl+X
CtrlX ==
    IF ~has_selection(Act)
    THEN Handled("cut", buffers, active, clipboard, last_search, "Cut: no selection.")
    ELSE LET rng == selection_range(Act)
         IN  Handled("cut", WithAct(delete_selection(Act)), active,
                     ListSlice(Act.lines, rng[1], rng[2] + 1), last_search, "Cut lines")

\* delete_selection_flow: Ctrl+D
CtrlD ==
    IF ~has_selection(Act)
    THEN Handled("delete_selection", buffers, active, clipboard, last_search, "Delete: no selection.")
    ELSE Handled("delete_selection", WithAct(delete_selection(Act)), active, clipboard,
                 last_search, "Deleted lines")

KeyF2 ==
    LET buf == Act
    IN  IF ~buf.selecting
        THEN Handled("select", WithAct([buf EXCEPT !.selecting = TRUE,
                                                   !.selection_start = buf.cursor_y,
                                                   !.selection_end = buf.cursor_y]),
                     active, clipboard, last_search, "Selection started")
        ELSE Handled("select", WithAct([buf EXCEPT !.selecting = FALSE,
                                                   !.selection_end = buf.cursor_y]),
                     active, clipboard, last_search, "Selection fixed.")

KeyF3 ==
    Handled("clear_selection", WithAct(clear_selection(Act)), active, clipboard, last_search,
            "Selection cleared.")

\* cleanup_flow: F6
cleanup_flow(r) ==
    Handled("cleanup", WithAct(CleanupApply(Act, r)), active, clipboard, last_search, r.message)

KeyF6 == cleanup_flow(cleanup_indentation(Act.lines))

Next ==
    \/ KeyNavigate \/ KeyNewline \/ KeyBackspace \/ KeyDeleteForward \/ KeyTab \/ KeyChar
    \/ CtrlS \/ CtrlN \/ CtrlO \/ CtrlT \/ CtrlW \/ KeyF7 \/ KeyF8
    \/ KeyF4 \/ CtrlF \/ CtrlH \/ CtrlG \/ CtrlGRefused
    \/ CtrlC \/ CtrlX \/ CtrlD \/ KeyF2 \/ KeyF3 \/ KeyF6

Spec == Init /\ [][Next]_vars

\* C2: after handle_input has processed a key event, the cursor of the active
\* buffer is within 0 <= line < len(lines) and 0 <= column <= len(lines[line]).
C2_CursorValidAfterKey == CursorInBounds(Act)

\* C3: every buffer of the buffer set has at least one line in every reachable state.
C3_BuffersNeverEmpty == \A i \in DOMAIN buffers : Len(buffers[i].lines) >= 1

\* Ctrl+X removed every line of the buffer, which was refilled with one empty line
C3_Witness ==
    /\ last.op = "cut"
    /\ status = "Cut lines"
    /\ clipboard # <<>>
    /\ Act.dirty
    /\ Act.lines = <<<<>>>>

\* C4: after handle_input has processed a key event, the active buffer has
\* scroll.row <= cursor.line, scroll.row >= 0 and scroll.col >= 0.
C4_ScrollAtOrAboveCursor ==
    /\ Act.scroll_y <= Act.cursor_y
    /\ Act.scroll_y >= 0
    /\ Act.scroll_x >= 0

\* C22: after any sequence of new-tab, close-tab and switch-tab operations interleaved
\* with edits, whatever the answers to the confirmation prompts, the buffer set is
\* non-empty and 0 <= active < number of buffers.
C22_ActiveIndexValid ==
    /\ Len(buffers) >= 1
    /\ 0 <= active
    /\ active < Len(buffers)

\* a second tab was opened and edited, and closing it was confirmed: the first tab is
\* the active one again
C22_Witness ==
    /\ steps = 3
    /\ last.op = "close_tab"
    /\ status = "Switched to tab"
    /\ Len(buffers) = 1
    /\ active = 0

\* C23: no key changes a buffer other than the active one: with the number of buffers
\* unchanged every other buffer keeps its lines, cursor, scroll, selection and dirty
\* flag; a new tab is added after the existing buffers and closing a tab removes the
\* active buffer only; switch_tab changes only the active index and the status.
C23_OnlyActiveBufferChanges ==
    [][/\ Len(buffers') = Len(buffers) =>
              \A i \in DOMAIN buffers : i # active + 1 => buffers'[i] = buffers[i]
       /\ Len(buffers') = Len(buffers) + 1 => SubSeq(buffers', 1, Len(buffers)) = buffers
       /\ Len(buffers') = Len(buffers) - 1 => buffers' = ListPop(buffers, active)
       /\ Len(buffers') \in {Len(buffers) - 1, Len(buffers), Len(buffers) + 1}
       /\ last'.op = "switch_tab" =>
              /\ buffers' = buffers
              /\ clipboard' = clipboard
              /\ last_search' = last_search]_vars

\* a character typed in the second tab while the first tab holds an unsaved "a"
C23_Witness ==
    /\ last.op = "char"
    /\ active = 1
    /\ buffers[1].lines = <<<<"a">>>>
    /\ buffers[1].dirty
    /\ buffers[2].lines = <<<<":">>>>
    /\ buffers[2].dirty

\* C24: while a buffer's selecting flag is set, after every processed key event
\* (navigation keys, edit keys and command keys such as goto and find-next) the
\* selection has both its ends and selection_end is the cursor's current line.
C24_SelectionEndFollowsCursor ==
    \A i \in DOMAIN buffers :
        buffers[i].selecting =>
            /\ has_selection(buffers[i])
            /\ buffers[i].selection_end = buffers[i].cursor_y

\* C20: in every reachable state, every buffer whose lines differ from its content at
\* the last successful save, load or new-file is dirty.
C20_ChangedImpliesDirty ==
    \A i \in DOMAIN buffers :
        buffers[i].lines # buffers[i].saved_lines => buffers[i].dirty

\* the file "a:" / tab "a" was loaded and F6 rewrote its second line
C20_Witness ==
    /\ last.op = "cleanup"
    /\ Act.saved_lines = <<<<"a", ":">>, <<TAB, "a">>>>
    /\ Act.lines = <<<<"a", ":">>, <<SP, SP, SP, SP, "a">>>>
    /\ Act.dirty

\* C34: save_flow clears dirty only when the write succeeds: when the save is cancelled
\* (empty path) or the write raises an OS error it reports that and leaves the dirty
\* flag and the lines of the buffer as they were; after a successful save dirty is
\* false and the lines are as they were.
C34_DirtyClearedOnlyBySuccessfulSave ==
    [][last'.op = "save" =>
           /\ status' \in {"Save canceled.", "Save failed", "Saved"}
           /\ active' = active
           /\ Len(buffers') = Len(buffers)
           /\ buffers'[active + 1].lines = Act.lines
           /\ status' \in {"Save canceled.", "Save failed"} =>
                  buffers'[active + 1].dirty = Act.dirty
           /\ status' = "Saved" => ~buffers'[active + 1].dirty]_vars

\* a character was typed into a new buffer, a path was given and the write failed: the
\* buffer has the path, its line and its dirty flag
C34_Witness ==
    /\ last.op = "save"
    /\ status = "Save failed"
    /\ Act.file_path = Path1
    /\ Act.lines = <<<<"a">>>>
    /\ Act.saved_lines = <<<<>>>>
    /\ Act.dirty

\* C35: in every reachable state, between a command key such as replace or cleanup
\* and the next key too, the cursor's line is a valid index into the lines of every
\* buffer, even when the cursor's column is larger than the length of that line.
C35_CursorLineValid ==
    \A i \in DOMAIN buffers :
        /\ 0 <= buffers[i].cursor_y
        /\ buffers[i].cursor_y < Len(buffers[i].lines)

\* replace has shortened the cursor's line of an opened file: the column lies past the
\* end of that line, the line number is that of a line
C35_Witness ==
    /\ last.op = "replace"
    /\ Act.cursor_y = 1
    /\ Len(Act.lines) >= 2
    /\ Act.cursor_x > Len(CurLine(Act))
    /\ Act.dirty

-----------------------------------------------------------------------------
(* SpecEdit: insert_char, backspace and delete_forward applied to one      *)
(* buffer, from every small buffer with an in-bounds cursor and any        *)
(* selection (none, being dragged, or frozen; an endpoint may lie past the *)
(* last line, as it does after lines were merged during a drag).           *)

EditChars == {<<"a">>, <<SP>>, Spaces(INDENT_WIDTH)}

EditStartLines ==
    { <<<<>>>>, <<<<"a">>>>, <<<<"a", SP>>, <<>>>>, <<<<SP, "a">>, <<"a">>>> }

EditSelections == {<<None, None>>} \cup ((0..2) \X (0..2))

EditStartBuffers ==
    { [Buffer EXCEPT !.lines = ls, !.cursor_y = y, !.cursor_x = x, !.preferred_x = x,
                     !.selecting = sg, !.selection_start = sel[1], !.selection_end = sel[2]] :
        ls \in EditStartLines, y \in 0..1, x \in 0..2, sg \in BOOLEAN, sel \in EditSelections }

InitEdit ==
    /\ InitCommon
    /\ status = "Ready"
    /\ \E b \in EditStartBuffers :
          /\ CursorInBounds(b)
          /\ b.selecting => has_selection(b)
          /\ buffers = <<b>>
    /\ last = [op |-> "init"]

EditStep(op, b) ==
    /\ steps < MaxEditSteps
    /\ WithinBounds(b)
    /\ buffers' = <<b>>
    /\ steps' = steps + 1
    /\ last' = [op |-> op]
    /\ arg' = buffers[1]
    /\ UNCHANGED <<active, clipboard, last_search, status, ret>>

EditInsert == \E ch \in EditChars : EditStep("insert_char", insert_char(buffers[1], ch))
EditBackspace == EditStep("backspace", backspace(buffers[1]))
EditDeleteForward == EditStep("delete_forward", delete_forward(buffers[1]))

NextEdit == EditInsert \/ EditBackspace \/ EditDeleteForward

SpecEdit == InitEdit /\ [][NextEdit]_vars

\* C1: after any sequence of insert_char, backspace and delete_forward from a
\* buffer with at least one line and an in-bounds cursor, the buffer still has
\* at least one line and the cursor is within 0 <= line < len(lines),
\* 0 <= column <= len(lines[line]).
C1_EditKeepsBufferValid ==
    /\ Len(buffers[1].lines) >= 1
    /\ CursorInBounds(buffers[1])

\* a frozen selection was consumed by an edit, emptying the buffer to one empty line,
\* and further edits followed
C1_Witness ==
    /\ steps = MaxEditSteps
    /\ last.op = "backspace"
    /\ buffers[1].dirty
    /\ ~has_selection(buffers[1])
    /\ buffers[1].lines = <<<<>>>>

-----------------------------------------------------------------------------
(* SpecRoundTrip: newline and then backspace applied to one buffer, from    *)
(* every small buffer with an in-bounds cursor and no frozen selection; arg *)
(* keeps the buffer the pair started from.                                  *)

RtLines ==
    { <<>>, <<"a", "a">>, <<SP, "a">>, <<"a", ":">>, <<"a", SP, "a">>, <<TAB, "a">>,
      <<SP, SP>>, <<"a", ":", SP>> }

RtStartLines ==
    {<<l>> : l \in RtLines} \cup {<<l, <<"a">>>> : l \in RtLines}
        \cup {<<<<"a">>, l>> : l \in RtLines}

\* no selection, or one being dragged from line 0 or 1
RtSelections == {<<FALSE, None, None>>} \cup {<<TRUE, y, y>> : y \in 0..1}

RtStartBuffers ==
    { [Buffer EXCEPT !.lines = ls, !.cursor_y = y, !.cursor_x = x, !.preferred_x = x,
                     !.selecting = sel[1], !.selection_start = sel[2], !.selection_end = sel[3]] :
        ls \in RtStartLines, y \in 0..1, x \in 0..3, sel \in RtSelections }

InitRoundTrip ==
    /\ active = 0
    /\ clipboard = <<>>
    /\ last_search = <<>>
    /\ status = "Ready"
    /\ steps = 0
    /\ ret = <<>>
    /\ \E b \in RtStartBuffers :
          /\ CursorInBounds(b)
          /\ buffers = <<b>>
          /\ arg = b
    /\ last = [op |-> "init"]

RtStep(op, b) ==
    /\ buffers' = <<b>>
    /\ steps' = steps + 1
    /\ last' = [op |-> op]
    /\ UNCHANGED <<active, clipboard, last_search, status, arg, ret>>

RtNewline == last.op = "init" /\ RtStep("newline", newline(buffers[1]))
RtBackspace == last.op = "newline" /\ RtStep("newline_backspace", backspace(buffers[1]))

NextRoundTrip == RtNewline \/ RtBackspace

SpecRoundTrip == InitRoundTrip /\ [][NextRoundTrip]_vars

\* the lines and the cursor are those the newline/backspace pair started from
RtRestored ==
    /\ buffers[1].lines = arg.lines
    /\ buffers[1].cursor_y = arg.cursor_y
    /\ buffers[1].cursor_x = arg.cursor_x

\* the text before and after the cursor of buf
RtBefore(buf) == Prefix(CurLine(buf), buf.cursor_x)
RtAfter(buf) == Suffix(CurLine(buf), buf.cursor_x)

\* newline adds no indentation and removes no spaces
RtPlain(buf) ==
    /\ LeadLen(RtBefore(buf), {SP}) = 0
    /\ ~endswith(rstrip(RtBefore(buf), Whitespace), ":")
    /\ LeadLen(RtAfter(buf), {SP}) = 0

\* C5 as stated: newline and then backspace restore the lines and the cursor, for
\* every line content.
C5_RoundTripAlways == last.op = "newline_backspace" => RtRestored

\* C5 amended: newline and then backspace restore the lines and the cursor when
\* the text before the cursor does not start with a space and, trimmed, does not
\* end with ':', and the text after the cursor does not start with a space.
C5_RoundTripPlain == last.op = "newline_backspace" /\ RtPlain(arg) => RtRestored

\* a line split in its middle and joined again
C5_Witness ==
    /\ last.op = "newline_backspace"
    /\ RtPlain(arg)
    /\ arg.lines = <<<<"a", "a">>, <<"a">>>>
    /\ arg.cursor_y = 0
    /\ arg.cursor_x = 1
    /\ buffers[1].dirty
    /\ RtRestored

\* C15: newline splits the current line at the cursor into two lines, and for every
\* cursor column, a column inside the leading whitespace included, the indentation of
\* the new line is that of the original line, plus 4 spaces if the text before the
\* cursor, trimmed, ends with ':'; the cursor lands on the new line at that column.
C15_NewlineKeepsIndentation ==
    last.op = "newline" =>
        LET a == buffers[1]
            orig == CurLine(arg)
            extra == IF endswith(rstrip(RtBefore(arg), Whitespace), ":")
                     THEN INDENT_WIDTH ELSE 0
            indentation == LeadLen(orig, {SP}) + extra
        IN  /\ Len(a.lines) = Len(arg.lines) + 1
            /\ a.lines[arg.cursor_y + 1] = RtBefore(arg)
            /\ LeadLen(a.lines[arg.cursor_y + 2], {SP}) = indentation
            /\ a.cursor_y = arg.cursor_y + 1
            /\ a.cursor_x = indentation

-----------------------------------------------------------------------------
(* SpecFile: save_file and then load_file of what it wrote; arg is the      *)
(* lines saved, ret the characters written and the lines loaded.            *)

MaxFileLines == 3  \* lines of a saved buffer

FileLineSet == { <<>>, <<"a">>, <<SP>>, <<"a", CR>>, <<FF, "a">> }

FileLines ==
    UNION { [1..n -> FileLineSet] : n \in 1..MaxFileLines }

InitFile ==
    /\ active = 0
    /\ clipboard = <<>>
    /\ last_search = <<>>
    /\ status = "Ready"
    /\ steps = 0
    /\ buffers = <<Buffer>>
    /\ arg \in FileLines
    /\ ret = [data |-> <<>>, lines |-> <<>>]
    /\ last = [op |-> "init"]

FileStep(op, r) ==
    /\ ret' = r
    /\ steps' = steps + 1
    /\ last' = [op |-> op]
    /\ UNCHANGED <<buffers, active, clipboard, last_search, status, arg>>

SaveFile == last.op = "init" /\ FileStep("save_file", [ret EXCEPT !.data = save_file(arg)])
LoadFile == last.op = "save_file" /\ FileStep("load_file", [ret EXCEPT !.lines = load_file(ret.data)])

NextFile == SaveFile \/ LoadFile

SpecFile == InitFile /\ [][NextFile]_vars

\* no line holds a character str.splitlines() splits at
NoLineBreaks(lines) ==
    \A i \in DOMAIN lines : \A j \in DOMAIN lines[i] : lines[i][j] \notin LineBreaks

\* C6: for a non-empty sequence of lines without line-break characters, loading
\* what save_file wrote yields the same sequence of lines.
C6_LoadOfSave == last.op = "load_file" /\ NoLineBreaks(arg) => ret.lines = arg

\* a buffer ending in two empty lines, written as "a\n\n" and read back
C6_Witness ==
    /\ last.op = "load_file"
    /\ arg = <<<<"a">>, <<>>, <<>>>>
    /\ ret.data = <<"a", LF, LF>>
    /\ ret.lines = arg

-----------------------------------------------------------------------------
(* SpecCleanup: cleanup_indentation applied to a sequence of lines; arg is  *)
(* the lines given, ret what compute_indents and cleanup_indentation return *)
(* for them.                                                                *)

MaxCleanupLines == 3  \* lines given to cleanup_indentation

CleanupLineSet ==
    { <<>>,
      <<"a">>,
      <<SP, "a">>,
      <<TAB, "a", SP>>,
      <<"a", ":">>,
      <<SP, "f", "(", ")", ":">>,
      <<SP, SP, SP, "a">>,
      <<"(">>,
      <<")">>,
      TRIPLE,
      <<"d", "e", "f", SP, "f", "(", ")", ":">>,
      <<SP, SP, "r", "e", "t", "u", "r", "n", SP, "1">> }

CleanupInputs ==
    UNION { [1..n -> CleanupLineSet] : n \in 1..MaxCleanupLines }

NoResult ==
    [computed |-> [ok |-> FALSE, line_indents |-> EmptyDict, skip_lines |-> {}],
     cleaned |-> <<>>, message |-> ""]

InitCleanup ==
    /\ active = 0
    /\ clipboard = <<>>
    /\ last_search = <<>>
    /\ status = "Ready"
    /\ steps = 0
    /\ buffers = <<Buffer>>
    /\ arg \in CleanupInputs
    /\ ret = NoResult
    /\ last = [op |-> "init"]

\* the result of cleanup_indentation once it is known, with what compute_indents gave
CleanupResult(computed, r) ==
    [computed |-> computed, cleaned |-> r.cleaned, message |-> r.message]

CleanupDone(computed) ==
    /\ last.op = "init"
    /\ ret' = CleanupResult(computed, CleanupWith(arg, computed))
    /\ steps' = steps + 1
    /\ last' = [op |-> "cleanup_indentation"]
    /\ UNCHANGED <<buffers, active, clipboard, last_search, status, arg>>

Cleanup == CleanupDone(compute_indents(arg))

NextCleanup == Cleanup

SpecCleanup == InitCleanup /\ [][NextCleanup]_vars

\* cleanup_indentation has run and the token stream could be built
Reformatted == last.op = "cleanup_indentation" /\ ret.computed.ok
\* cleanup_indentation has run and the token stream could not be built
Degraded == last.op = "cleanup_indentation" /\ ~ret.computed.ok

\* C7: when the token stream can be built, the output line of every line in
\* skip_set equals the input line character for character.
C7_SkippedLinesUntouched ==
    Reformatted =>
        /\ Len(ret.cleaned) = Len(arg)
        /\ \A i \in DOMAIN arg : i \in ret.computed.skip_lines => ret.cleaned[i] = arg[i]

\* the interior of a triple-quoted string, with a tab and a trailing space, is kept
C7_Witness ==
    /\ Reformatted
    /\ arg = <<TRIPLE, <<TAB, "a", SP>>, TRIPLE>>
    /\ 2 \in ret.computed.skip_lines
    /\ ret.cleaned[2] = <<TAB, "a", SP>>

\* the content of a line: leading spaces and tabs and trailing whitespace removed
Trimmed(raw) == rstrip(lstrip(raw, {SP, TAB}), Whitespace)

\* C8: when the token stream can be built, every line not in skip_set becomes
\* (level recorded for the line) * 4 spaces followed by its content without leading
\* spaces/tabs and trailing whitespace; a whitespace-only line becomes empty.
C8_RewrittenToLevel ==
    Reformatted =>
        \A i \in DOMAIN arg :
            i \notin ret.computed.skip_lines =>
                IF Trimmed(arg[i]) = <<>>
                THEN ret.cleaned[i] = <<>>
                ELSE /\ i \in DOMAIN ret.computed.line_indents
                     /\ ret.cleaned[i] =
                            Spaces(ret.computed.line_indents[i] * INDENT_WIDTH) \o Trimmed(arg[i])

\* a block body indented with a tab and ending in a space is rewritten to level 1
C8_Witness ==
    /\ Reformatted
    /\ arg = <<<<"a", ":">>, <<TAB, "a", SP>>>>
    /\ 2 \notin ret.computed.skip_lines
    /\ ret.computed.line_indents[2] = 1
    /\ ret.cleaned = <<<<"a", ":">>, <<SP, SP, SP, SP, "a">>>>

\* the number of leading spaces of a line
Indentation(line) == LeadLen(line, {SP})

\* C9: the first statement line of a block opened by a line ending in ':' is
\* rewritten to exactly one more indent unit than the opening line (as in
\* ["def f():", "  return 1"] -> ["def f():", "    return 1"]).
C9_BodyOneUnitDeeper ==
    Reformatted =>
        \A i \in 1..(Len(arg) - 1) :
            /\ endswith(Trimmed(arg[i]), ":")
            /\ Trimmed(arg[i + 1]) # <<>>
            /\ ColumnOf(arg[i + 1], 0, 0) > ColumnOf(arg[i], 0, 0)
            => Indentation(ret.cleaned[i + 1]) = Indentation(ret.cleaned[i]) + INDENT_WIDTH

\* the width of the leading run of spaces and tabs with every tab counted as 4 spaces
RECURSIVE LeadWidth(_)
LeadWidth(raw) ==
    IF raw = <<>> \/ Head(raw) \notin {SP, TAB} THEN 0
    ELSE (IF Head(raw) = TAB THEN INDENT_WIDTH ELSE 1) + LeadWidth(Tail(raw))

\* C10: when the token stream cannot be built, cleanup_indentation returns the
\* degraded-mode message and, for every line, the line with each leading tab
\* replaced by 4 spaces and trailing whitespace stripped, the rest unchanged.
C10_DegradedCleanup ==
    Degraded =>
        /\ ret.message = "Cleanup: normalized tabs + trailing whitespace (parse failed)."
        /\ Len(ret.cleaned) = Len(arg)
        /\ \A i \in DOMAIN arg :
               ret.cleaned[i] =
                   rstrip(Spaces(LeadWidth(arg[i])) \o lstrip(arg[i], {SP, TAB}), Whitespace)

\* an unclosed bracket: the tab of the next line becomes 4 spaces, its trailing space goes
C10_Witness ==
    /\ Degraded
    /\ arg = <<<<"(">>, <<TAB, "a", SP>>>>
    /\ ret.cleaned = <<<<"(">>, <<SP, SP, SP, SP, "a">>>>

\* the open-bracket depth after the first n tokens: raised by ( [ {, lowered by ) ] },
\* never below 0
RECURSIVE DepthAfter(_, _)
DepthAfter(toks, n) ==
    IF n = 0 THEN 0
    ELSE LET d == DepthAfter(toks, n - 1)
             tok == toks[n]
         IN  IF tok.type = "OP" /\ tok.string \in {<<"(">>, <<"[">>, <<"{">>} THEN d + 1
             ELSE IF tok.type = "OP" /\ tok.string \in {<<")">>, <<"]">>, <<"}">>}
             THEN Max(0, d - 1)
             ELSE d

\* the open-bracket depth at which the 1-based line i starts: the depth after the
\* tokens that start on earlier lines
StartDepth(toks, i) ==
    DepthAfter(toks, Cardinality({n \in DOMAIN toks : toks[n].start[1] < i}))

\* line i is covered by a string token that spans several lines
InMultiLineString(toks, i) ==
    \E n \in DOMAIN toks :
        /\ toks[n].type = "STRING"
        /\ toks[n].start[1] # toks[n].end[1]
        /\ toks[n].start[1] <= i
        /\ i <= toks[n].end[1]

\* C25: after a successful token scan, every line that starts while the open-bracket
\* depth is > 0 (a continuation line whose first token is the closing bracket of the
\* group included) and every line covered by a multi-line string token is in skip_set
\* and is left untouched by reformatting.
C25_ContinuationLinesSkipped ==
    Reformatted =>
        LET toks == generate_tokens(arg).toks IN
        \A i \in DOMAIN arg :
            StartDepth(toks, i) > 0 \/ InMultiLineString(toks, i) =>
                /\ i \in ret.computed.skip_lines
                /\ ret.cleaned[i] = arg[i]

\* C26: skip_set contains only lines inside a multi-line string or inside an open
\* bracket group: every other line, also one that starts at bracket depth 0 and merely
\* contains a bracket, is not skipped, has a level recorded when it has content, and is
\* re-indented to that level.
C26_OnlyContinuationLinesSkipped ==
    Reformatted =>
        LET toks == generate_tokens(arg).toks IN
        \A i \in DOMAIN arg :
            ~(StartDepth(toks, i) > 0 \/ InMultiLineString(toks, i)) =>
                /\ i \notin ret.computed.skip_lines
                /\ Trimmed(arg[i]) # <<>> =>
                       /\ i \in DOMAIN ret.computed.line_indents
                       /\ ret.cleaned[i] =
                              Spaces(ret.computed.line_indents[i] * INDENT_WIDTH)
                                  \o Trimmed(arg[i])

\* the number of tab characters at the start of a line
LeadingTabs(raw) == LeadLen(raw, {TAB})

\* a skipped line that begins with a tab
SkippedTabLine(i) ==
    /\ i \in ret.computed.skip_lines
    /\ i \in DOMAIN arg
    /\ LeadingTabs(arg[i]) > 0

\* C27 as stated: when reformatting succeeds, a skipped line that begins with tabs has
\* those leading tabs converted to 4 spaces each and is otherwise unchanged.
C27_SkippedTabsConverted ==
    Reformatted =>
        \A i \in DOMAIN arg :
            SkippedTabLine(i) =>
                ret.cleaned[i] = Spaces(INDENT_WIDTH * LeadingTabs(arg[i]))
                                     \o Suffix(arg[i], LeadingTabs(arg[i]))

\* C27 amended: when reformatting succeeds, a skipped line that begins with tabs keeps
\* its leading tabs: it has as many leading tabs and as many characters as before.
C27_SkippedTabsKept ==
    Reformatted =>
        \A i \in DOMAIN arg :
            SkippedTabLine(i) =>
                /\ LeadingTabs(ret.cleaned[i]) = LeadingTabs(arg[i])
                /\ Len(ret.cleaned[i]) = Len(arg[i])

\* a line made of a tab, "a" and a space inside a triple-quoted string
C27_Witness ==
    /\ Reformatted
    /\ arg = <<TRIPLE, <<TAB, "a", SP>>, TRIPLE>>
    /\ SkippedTabLine(2)
    /\ LeadingTabs(ret.cleaned[2]) = 1

-----------------------------------------------------------------------------
(* SpecSyntax: build_syntax_spans applied to a sequence of lines; arg is the *)
(* lines given, ret the map returned, with the token stream it was built    *)
(* from and the spans the loop had collected when the stream ended.         *)

MaxSyntaxLines == 3  \* lines given to build_syntax_spans

SyntaxLineSet ==
    { <<>>,
      <<"1">>,
      <<"(">>,
      TRIPLE,
      <<HASH, "a">>,
      <<SP, "a">>,
      <<"d", "e", "f", SP, "f", "(", ")", ":">>,
      <<"c", "l", "a", "s", "s", SP, "a", ":">>,
      <<"p", "r", "i", "n", "t", "(", "1", ")">>,
      <<SP, SP, "r", "e", "t", "u", "r", "n", SP, "1">>,
      <<"x", SP, "=", SP, "1", SP, SP, HASH, SP, "n", "o", "t", "e">>,
      <<"@", "a">>,
      <<"d", "e", "f", SP, "p", "r", "i", "n", "t">>,
      <<"c", "l", "a", "s", "s", SP, "d", "e", "f">>,
      <<"i", "n", "t", SP, "a">>,
      <<QUOTE, "a", QUOTE>> }

SyntaxInputs ==
    UNION { [1..n -> SyntaxLineSet] : n \in 1..MaxSyntaxLines }

InitSyntax ==
    /\ active = 0
    /\ clipboard = <<>>
    /\ last_search = <<>>
    /\ status = "Ready"
    /\ steps = 0
    /\ buffers = <<Buffer>>
    /\ arg \in SyntaxInputs
    /\ ret = [spans |-> EmptyDict, toks |-> <<>>, err |-> "", collected |-> EmptyDict]
    /\ last = [op |-> "init"]

SyntaxDone(g, st) ==
    /\ last.op = "init"
    /\ ret' = [spans |-> SpansOf(g, st), toks |-> g.toks, err |-> g.err,
               collected |-> st.spans]
    /\ steps' = steps + 1
    /\ last' = [op |-> "build_syntax_spans"]
    /\ UNCHANGED <<buffers, active, clipboard, last_search, status, arg>>

SyntaxWalk(g) == SyntaxDone(g, SpanLoop(g.toks, arg, 1, SpanStart))

Classify == SyntaxWalk(generate_tokens(arg))

NextSyntax == Classify

SpecSyntax == InitSyntax /\ [][NextSyntax]_vars

\* build_syntax_spans has run
Classified == last.op = "build_syntax_spans"

\* the span a comment, string or number token lying on one line must get
OwnSpan(tok) ==
    TokenSpan(tok.start[2], tok.end[2],
              CASE tok.type = "COMMENT" -> "comment"
                [] tok.type = "STRING" -> "string"
                [] OTHER -> "number")

\* C11: when the token stream fails, build_syntax_spans returns the empty map, whatever
\* spans the tokens before the failure had produced; when it does not fail, the map is
\* complete (every comment, string and number token has its span): never partial.
C11_FailureGivesEmptyMap ==
    Classified =>
        IF ret.err # "" THEN ret.spans = EmptyDict
        ELSE \A i \in DOMAIN ret.toks :
                 LET tok == ret.toks[i] IN
                 /\ tok.type \in {"COMMENT", "STRING", "NUMBER"}
                 /\ tok.start[1] = tok.end[1]
                 => /\ tok.start[1] \in DOMAIN ret.spans
                    /\ \E k \in DOMAIN ret.spans[tok.start[1]] :
                           ret.spans[tok.start[1]][k] = OwnSpan(tok)

\* a number, then a bracket that is never closed: the number's span is discarded
C11_Witness ==
    /\ Classified
    /\ arg = <<<<"1">>, <<"(">>>>
    /\ ret.err = "TokenError"
    /\ ret.collected = (1 :> <<TokenSpan(0, 1, "number")>>)
    /\ ret.spans = EmptyDict

\* C12: the spans returned for a line are sorted by start column, pairwise
\* non-overlapping, non-empty (start < end), and end at or before the end of that line.
C12_SpansWellFormed ==
    Classified =>
        \A line_no \in DOMAIN ret.spans :
            /\ line_no \in 1..Len(arg)
            /\ \A i \in DOMAIN ret.spans[line_no] :
                   LET span == ret.spans[line_no][i] IN
                   /\ 0 <= span.start
                   /\ span.start < span.end
                   /\ span.end <= Len(arg[line_no])
                   /\ \A j \in DOMAIN ret.spans[line_no] :
                          i < j => span.end <= ret.spans[line_no][j].start

\* a triple-quoted string over three lines whose middle line is empty: the middle line
\* gets no span
C12_Witness ==
    /\ Classified
    /\ arg = <<TRIPLE, <<>>, TRIPLE>>
    /\ ret.spans = (1 :> <<TokenSpan(0, 3, "string")>>) @@ (3 :> <<TokenSpan(0, 3, "string")>>)

\* an identifier token: a NAME that is not a keyword
IsIdentifier(tok) == tok.type = "NAME" /\ tok.string \notin kwlist

\* a 'def' or 'class' keyword token
IsDefKeyword(tok) == tok.type = "NAME" /\ tok.string = <<"d", "e", "f">>
IsClassKeyword(tok) == tok.type = "NAME" /\ tok.string = <<"c", "l", "a", "s", "s">>

\* the tokens before token k that touch the carried state
StateTokens(toks, k) ==
    {j \in 1..(k - 1) : IsDefKeyword(toks[j]) \/ IsClassKeyword(toks[j]) \/ IsIdentifier(toks[j])}

\* the carried state when token k is read, told from the token stream alone: what the
\* last 'def'/'class' keyword before k expects, unless an identifier came after it
Expecting(toks, k) ==
    LET S == StateTokens(toks, k) IN
    IF S = {} THEN "none"
    ELSE LET j == CHOOSE m \in S : \A n \in S : n <= m IN
         IF IsDefKeyword(toks[j]) THEN "def"
         ELSE IF IsClassKeyword(toks[j]) THEN "class"
         ELSE "none"

\* the styles of the spans returned for the place of token tok
StylesAt(tok) ==
    IF tok.start[1] \notin DOMAIN ret.spans THEN {}
    ELSE {ret.spans[tok.start[1]][k].style : k \in
              {k \in DOMAIN ret.spans[tok.start[1]] :
                   /\ ret.spans[tok.start[1]][k].start = tok.start[2]
                   /\ ret.spans[tok.start[1]][k].end = tok.end[2]}}

\* C28: the classifier carries one tri-state (none / after def / after class, never both
\* flags at once), set by a 'def' or 'class' keyword; the next identifier is styled
\* defname or classname (builtin name or not) and resets it, and no other identifier is
\* styled defname or classname.
C28_PendingNameTriState ==
    Classified =>
        /\ \A k \in 0..Len(ret.toks) :
               LET st == SpanLoop(Prefix(ret.toks, k), arg, 1, SpanStart) IN
               /\ st.pending_def <=> Expecting(ret.toks, k + 1) = "def"
               /\ st.pending_class <=> Expecting(ret.toks, k + 1) = "class"
               /\ ~(st.pending_def /\ st.pending_class)
        /\ ret.err = "" =>
               \A k \in DOMAIN ret.toks :
                   IsIdentifier(ret.toks[k]) =>
                       /\ Expecting(ret.toks, k) = "def" => StylesAt(ret.toks[k]) = {"defname"}
                       /\ Expecting(ret.toks, k) = "class" => StylesAt(ret.toks[k]) = {"classname"}
                       /\ Expecting(ret.toks, k) = "none" =>
                              StylesAt(ret.toks[k]) \cap {"defname", "classname"} = {}

\* 'class def' and then 'int a': def replaces class, the builtin name int on the next
\* line is the defname, and a gets no span
C28_Witness ==
    /\ Classified
    /\ arg = <<<<"c", "l", "a", "s", "s", SP, "d", "e", "f">>, <<"i", "n", "t", SP, "a">>>>
    /\ ret.spans = (1 :> <<TokenSpan(0, 5, "keyword"), TokenSpan(6, 9, "keyword")>>)
                       @@ (2 :> <<TokenSpan(0, 3, "defname")>>)

\* the style the mapping gives token k of the stream ("" for no span), the styles
\* defname and classname of C28 apart
MappedStyle(toks, k) ==
    LET tok == toks[k] IN
    CASE tok.type = "COMMENT" -> "comment"
      [] tok.type = "STRING" -> "string"
      [] tok.type = "NUMBER" -> "number"
      [] tok.type = "NAME" /\ tok.string \in kwlist -> "keyword"
      [] tok.type = "OP" /\ tok.string = <<"@">> -> "decorator"
      [] IsIdentifier(tok) /\ Expecting(toks, k) = "def" -> "defname"
      [] IsIdentifier(tok) /\ Expecting(toks, k) = "class" -> "classname"
      [] IsIdentifier(tok) /\ tok.string \in builtins -> "builtin"
      [] OTHER -> ""

\* the line 'x = 1  # note'
NoteLine == <<"x", SP, "=", SP, "1", SP, SP, HASH, SP, "n", "o", "t", "e">>

\* C29: comment, string and number tokens get the styles comment, string and number,
\* keywords keyword, an '@' operator decorator, a builtin name with nothing pending
\* builtin; every other token gets no span, and no span is returned that is not the span
\* of a styled token; 'x = 1  # note' yields a number span over '1' and a comment span
\* over '# note' and nothing else.
C29_TokenStyleMapping ==
    Classified /\ ret.err = "" =>
        /\ \A k \in DOMAIN ret.toks :
               LET tok == ret.toks[k]
                   style == MappedStyle(ret.toks, k)
               IN  /\ style = "" => StylesAt(tok) = {}
                   /\ style # "" /\ tok.start[1] = tok.end[1] => StylesAt(tok) = {style}
        /\ \A line_no \in DOMAIN ret.spans :
               \A i \in DOMAIN ret.spans[line_no] :
                   \E k \in DOMAIN ret.toks :
                       /\ ret.spans[line_no][i].style = MappedStyle(ret.toks, k)
                       /\ ret.toks[k].start[1] <= line_no
                       /\ line_no <= ret.toks[k].end[1]
                       /\ line_no = ret.toks[k].start[1] =>
                              ret.spans[line_no][i].start = ret.toks[k].start[2]
                       /\ line_no = ret.toks[k].end[1] =>
                              ret.spans[line_no][i].end = ret.toks[k].end[2]
        /\ arg = <<NoteLine>> =>
               ret.spans = (1 :> <<TokenSpan(4, 5, "number"), TokenSpan(7, 13, "comment")>>)

\* '@a' and then 'x = 1  # note': a decorator span on the first line, a number and a
\* comment span on the second, none for a, x and =
C29_Witness ==
    /\ Classified
    /\ arg = <<<<"@", "a">>, NoteLine>>
    /\ ret.spans = (1 :> <<TokenSpan(0, 1, "decorator")>>)
                       @@ (2 :> <<TokenSpan(4, 5, "number"), TokenSpan(7, 13, "comment")>>)

\* a styled token of the stream returned that spans several lines
MultiLineTokens ==
    {k \in DOMAIN ret.toks :
         MappedStyle(ret.toks, k) # "" /\ ret.toks[k].start[1] < ret.toks[k].end[1]}

\* the part of line line_no that token k covers
CoveredFrom(k, line_no) == IF line_no = ret.toks[k].start[1] THEN ret.toks[k].start[2] ELSE 0
CoveredTo(k, line_no) ==
    IF line_no = ret.toks[k].end[1] THEN ret.toks[k].end[2] ELSE Len(arg[line_no])

\* the spans returned for line line_no that lie in the part token k covers
SpansCovered(k, line_no) ==
    IF line_no \notin DOMAIN ret.spans THEN {}
    ELSE {i \in DOMAIN ret.spans[line_no] :
              /\ CoveredFrom(k, line_no) <= ret.spans[line_no][i].start
              /\ ret.spans[line_no][i].end <= CoveredTo(k, line_no)}

\* token k has exactly one span on line line_no, over the part it covers
OneSpanOn(k, line_no) ==
    /\ CoveredTo(k, line_no) <= Len(arg[line_no])
    /\ Cardinality(SpansCovered(k, line_no)) = 1
    /\ \A i \in SpansCovered(k, line_no) :
           ret.spans[line_no][i] =
               TokenSpan(CoveredFrom(k, line_no), CoveredTo(k, line_no),
                         MappedStyle(ret.toks, k))

\* C30 as stated: a styled token over lines s..e, s < e, has exactly one span on each
\* line it covers, from its start column to the end of the first line, over the whole of
\* every middle line, from column 0 to its end column on the last line; blank lines
\* inside the token included.
C30_OneSpanPerCoveredLine ==
    Classified /\ ret.err = "" =>
        \A k \in MultiLineTokens :
            \A line_no \in ret.toks[k].start[1]..ret.toks[k].end[1] :
                OneSpanOn(k, line_no)

\* C30 amended: a styled token over lines s..e, s < e, has exactly one span on each
\* line it covers that is not empty, from its start column to the end of the first line,
\* over the whole of every middle line, from column 0 to its end column on the last
\* line; an empty line inside the token gets no span.
C30_OneSpanPerNonEmptyCoveredLine ==
    Classified /\ ret.err = "" =>
        \A k \in MultiLineTokens :
            \A line_no \in ret.toks[k].start[1]..ret.toks[k].end[1] :
                IF arg[line_no] = <<>>
                THEN line_no \notin DOMAIN ret.spans
                ELSE OneSpanOn(k, line_no)

\* a string token from line 1, column 0 to line 3, column 3 whose middle line is empty:
\* spans are returned for lines 1 and 3 only
C30_Witness ==
    /\ Classified
    /\ ret.err = ""
    /\ \E k \in MultiLineTokens :
           /\ ret.toks[k].type = "STRING"
           /\ ret.toks[k].start = <<1, 0>>
           /\ ret.toks[k].end = <<3, 3>>
           /\ arg[2] = <<>>
           /\ OneSpanOn(k, 1)
           /\ OneSpanOn(k, 3)
    /\ DOMAIN ret.spans = {1, 3}

-----------------------------------------------------------------------------
(* SpecView: ensure_cursor_visible applied to one buffer, from every small  *)
(* cursor position and scroll offset and every small body size, and from a  *)
(* cursor on line 25 with a body 10 lines high; arg keeps the buffer and    *)
(* the size the call was given.                                             *)

MaxViewPos == 4   \* cursor line/column and scroll offsets
MaxViewSize == 3  \* body height and editor width

ViewCursorLines == 0..MaxViewPos \cup {25}
ViewHeights == 1..MaxViewSize \cup {10}

\* a buffer whose cursor is at (cy, cx), on the last of its lines, at the end of it
ViewBuffer(cy, cx, sy, sx) ==
    [Buffer EXCEPT !.lines = [i \in 1..(cy + 1) |-> Spaces(cx)],
                   !.cursor_y = cy, !.cursor_x = cx, !.preferred_x = cx,
                   !.scroll_y = sy, !.scroll_x = sx]

ViewInputs ==
    { [buf |-> ViewBuffer(cy, cx, sy, sx), body_h |-> h, editor_w |-> w] :
          cy \in ViewCursorLines, cx \in 0..MaxViewPos,
          sy \in 0..MaxViewPos, sx \in 0..MaxViewPos,
          h \in ViewHeights, w \in 1..MaxViewSize }

InitView ==
    /\ active = 0
    /\ clipboard = <<>>
    /\ last_search = <<>>
    /\ status = "Ready"
    /\ steps = 0
    /\ arg \in ViewInputs
    /\ buffers = <<arg.buf>>
    /\ ret = <<>>
    /\ last = [op |-> "init"]

EnsureVisible ==
    /\ last.op = "init"
    /\ buffers' = <<ensure_cursor_visible(buffers[1], arg.body_h, arg.editor_w)>>
    /\ steps' = steps + 1
    /\ last' = [op |-> "ensure_cursor_visible"]
    /\ UNCHANGED <<active, clipboard, last_search, status, arg, ret>>

NextView == EnsureVisible

SpecView == InitView /\ [][NextView]_vars

\* the offset the rule gives for a cursor position, an old offset and a window size
RuleOffset(cursor, scroll, size) ==
    IF cursor < scroll THEN cursor
    ELSE IF cursor >= scroll + size THEN cursor - size + 1
    ELSE scroll

\* C13: with height h >= 1 and width w >= 1, ensure_cursor_visible sets scroll.row to
\* cursor.line when cursor.line < scroll.row, to cursor.line - h + 1 when
\* cursor.line >= scroll.row + h, and leaves it unchanged otherwise, and likewise
\* scroll.col with cursor.col and w; afterwards scroll.row <= cursor.line < scroll.row + h,
\* scroll.col <= cursor.col < scroll.col + w and both offsets are >= 0.
C13_CursorMadeVisible ==
    last.op = "ensure_cursor_visible" =>
        LET b == arg.buf
            a == buffers[1]
        IN  /\ a = [b EXCEPT !.scroll_y = RuleOffset(b.cursor_y, b.scroll_y, arg.body_h),
                             !.scroll_x = RuleOffset(b.cursor_x, b.scroll_x, arg.editor_w)]
            /\ a.scroll_y <= a.cursor_y /\ a.cursor_y < a.scroll_y + arg.body_h
            /\ a.scroll_x <= a.cursor_x /\ a.cursor_x < a.scroll_x + arg.editor_w
            /\ a.scroll_y >= 0 /\ a.scroll_x >= 0

\* height 10, scroll.row 0, cursor on line 25: scroll.row becomes 16
C13_Witness ==
    /\ last.op = "ensure_cursor_visible"
    /\ arg.body_h = 10
    /\ arg.buf.scroll_y = 0
    /\ arg.buf.cursor_y = 25
    /\ buffers[1].scroll_y = 16

-----------------------------------------------------------------------------
(* SpecKey: handle_input for the key codes that reach its last two branches *)
(* (Tab, printable characters) or no branch at all, applied to one buffer   *)
(* from the buffers SpecEdit starts from; arg keeps the buffer before the   *)
(* key, last the key code.                                                  *)

\* Tab, Ctrl+_ (31, bound to nothing), space, ':', 'a', '~', and 128 (bound to nothing)
TextKeys == {9, 31, 32, 58, 97, 126, 128}

TextKey ==
    \E key \in TextKeys, d \in Dims :
        LET b == Finish(text_key(buffers[1], key), d[1], d[2]) IN
        /\ steps < MaxEditSteps
        /\ WithinBounds(b)
        /\ buffers' = <<b>>
        /\ steps' = steps + 1
        /\ last' = [op |-> "text_key", key |-> key]
        /\ arg' = buffers[1]
        /\ UNCHANGED <<active, clipboard, last_search, status, ret>>

NextKey == TextKey

SpecKey == InitEdit /\ [][NextKey]_vars

\* the buffer has a selection that is not being dragged
Frozen(buf) == has_selection(buf) /\ ~buf.selecting

\* C14: a key that inserts text first deletes a selection that exists and is not
\* mid-drag, then splices the text into the cursor's line at the cursor column; the
\* cursor column advances by the length of the text, no other line changes and dirty
\* is set.  Tab inserts exactly 4 spaces, a key with code 32..126 its character, and
\* any other key code inserts nothing.
C14_InsertSplices ==
    last.op = "text_key" =>
        LET b == IF Frozen(arg) THEN delete_selection(arg) ELSE arg
            a == buffers[1]
            line == b.lines[b.cursor_y + 1]
            text == IF last.key = 9 THEN <<SP, SP, SP, SP>>
                    ELSE IF last.key \in 32..126 THEN <<chr[last.key]>>
                    ELSE <<>>
        IN  IF text = <<>> THEN a.lines = arg.lines /\ a.dirty = arg.dirty
            ELSE /\ Frozen(arg) => ~has_selection(a) /\ b.cursor_x = 0
                 /\ Len(a.lines) = Len(b.lines)
                 /\ a.cursor_y = b.cursor_y
                 /\ a.cursor_x = b.cursor_x + Len(text)
                 /\ a.lines[b.cursor_y + 1] =
                        SubSeq(line, 1, b.cursor_x) \o text
                            \o SubSeq(line, b.cursor_x + 1, Len(line))
                 /\ \A i \in DOMAIN a.lines : i # b.cursor_y + 1 => a.lines[i] = b.lines[i]
                 /\ a.dirty

\* Tab with the first of two lines selected and the selection fixed: the line is
\* deleted and four spaces are put on the line that is left
C14_Witness ==
    /\ last.op = "text_key"
    /\ last.key = 9
    /\ Frozen(arg)
    /\ arg.lines = <<<<"a", SP>>, <<>>>>
    /\ arg.selection_start = 0
    /\ arg.selection_end = 0
    /\ buffers[1].lines = <<<<SP, SP, SP, SP>>>>
    /\ buffers[1].cursor_x = 4

-----------------------------------------------------------------------------
(* backspace and delete_forward on SpecEdit: arg is the buffer before the   *)
(* operation named by last.op, buffers[1] the buffer after it.              *)

\* line without the character at 0-based column c
WithoutChar(line, c) == SubSeq(line, 1, c) \o SubSeq(line, c + 2, Len(line))

\* lines with the 0-based lines y and y + 1 replaced by their concatenation
Joined(lines, y) ==
    SubSeq(lines, 1, y) \o <<lines[y + 1] \o lines[y + 2]>> \o SubSeq(lines, y + 3, Len(lines))

\* lines with line y replaced by new
WithLine(lines, y, new) == [lines EXCEPT ![y + 1] = new]

\* C16: backspace with no frozen selection: at column c > 0 it removes exactly the
\* character at column c-1 of the cursor's line and moves the cursor to column c-1; at
\* column 0 of a line other than the first it replaces the previous line by
\* previous+current, removes the current line and puts the cursor on the previous line
\* at the column equal to that line's old length; all other lines are unchanged.
C16_BackspaceRemovesBefore ==
    last.op = "backspace" /\ ~Frozen(arg) =>
        LET a == buffers[1]
            y == arg.cursor_y
            c == arg.cursor_x
        IN  IF c > 0
            THEN /\ a.lines = WithLine(arg.lines, y, WithoutChar(arg.lines[y + 1], c - 1))
                 /\ Len(a.lines[y + 1]) = Len(arg.lines[y + 1]) - 1
                 /\ a.cursor_y = y
                 /\ a.cursor_x = c - 1
            ELSE y > 0 =>
                 /\ a.lines = Joined(arg.lines, y - 1)
                 /\ Len(a.lines) = Len(arg.lines) - 1
                 /\ a.cursor_y = y - 1
                 /\ a.cursor_x = Len(arg.lines[y])

\* both cases in one run: the two lines " a" and "a" are joined at column 2, then the
\* character before the join point is removed
C16_Witness ==
    /\ last.op = "backspace"
    /\ steps = 2
    /\ ~Frozen(arg)
    /\ arg.lines = <<<<SP, "a", "a">>>>
    /\ arg.cursor_x = 2
    /\ buffers[1].lines = <<<<SP, "a">>>>
    /\ buffers[1].cursor_x = 1

\* C17: delete_forward with no frozen selection: with the cursor column less than the
\* line length it removes exactly the character at the cursor; at the end of a line
\* other than the last it replaces the line by current+next and removes the next line;
\* in both cases the cursor and all other lines are unchanged.
C17_DeleteForwardRemovesAt ==
    last.op = "delete_forward" /\ ~Frozen(arg) =>
        LET a == buffers[1]
            y == arg.cursor_y
            c == arg.cursor_x
        IN  /\ c < Len(arg.lines[y + 1]) =>
                /\ a.lines = WithLine(arg.lines, y, WithoutChar(arg.lines[y + 1], c))
                /\ Len(a.lines[y + 1]) = Len(arg.lines[y + 1]) - 1
                /\ a.cursor_y = y /\ a.cursor_x = c
            /\ c = Len(arg.lines[y + 1]) /\ y < Len(arg.lines) - 1 =>
                /\ a.lines = Joined(arg.lines, y)
                /\ Len(a.lines) = Len(arg.lines) - 1
                /\ a.cursor_y = y /\ a.cursor_x = c

\* the cursor at the end of " a", the first of two lines: the second line is joined
\* to it and the cursor stays at column 2
C17_Witness ==
    /\ last.op = "delete_forward"
    /\ ~Frozen(arg)
    /\ arg.lines = <<<<SP, "a">>, <<"a">>>>
    /\ arg.cursor_y = 0
    /\ arg.cursor_x = 2
    /\ buffers[1].lines = <<<<SP, "a", "a">>>>
    /\ buffers[1].cursor_y = 0
    /\ buffers[1].cursor_x = 2

\* the cursor of buf is at the start of the buffer / at the end of the last line
AtBufferStart(buf) == buf.cursor_y = 0 /\ buf.cursor_x = 0
AtBufferEnd(buf) ==
    buf.cursor_y = Len(buf.lines) - 1 /\ buf.cursor_x = Len(buf.lines[buf.cursor_y + 1])

\* C19: with no frozen selection, backspace with the cursor at line 0 column 0 and
\* delete_forward with the cursor at the end of the last line change nothing: lines,
\* cursor, selection and dirty flag are as before.
C19_BoundaryNoOp ==
    /\ last.op = "backspace" /\ ~Frozen(arg) /\ AtBufferStart(arg) => buffers[1] = arg
    /\ last.op = "delete_forward" /\ ~Frozen(arg) /\ AtBufferEnd(arg) => buffers[1] = arg

\* a clean two-line buffer with a selection being dragged and the cursor at the end of
\* its last line, after delete_forward
C19_Witness ==
    /\ last.op = "delete_forward"
    /\ ~Frozen(arg)
    /\ AtBufferEnd(arg)
    /\ arg.selecting
    /\ ~arg.dirty
    /\ Len(arg.lines) = 2
    /\ buffers[1] = arg

-----------------------------------------------------------------------------
(* SpecSelect: delete_selection applied to one buffer that has a selection, *)
(* being dragged or fixed, in either order of its endpoints.  The end of a  *)
(* selection is a line of the buffer (F2 and update_selection set it to the *)
(* cursor line, and lines are only removed while the selection follows the  *)
(* cursor); its start may lie past the last line, as it does after lines    *)
(* were joined during a drag.  arg keeps the buffer before the call.        *)

SelectStartLines ==
    { <<<<"a">>>>,
      <<<<"a">>, <<>>>>,
      <<<<"a">>, <<SP, "a">>, <<":">>>> }

SelectStartBuffers ==
    { [Buffer EXCEPT !.lines = ls, !.cursor_y = y, !.cursor_x = x, !.preferred_x = x,
                     !.dirty = d, !.selecting = sg,
                     !.selection_start = s, !.selection_end = e] :
        ls \in SelectStartLines, y \in 0..(MaxLines - 1), x \in 0..1, d \in BOOLEAN,
        sg \in BOOLEAN, s \in 0..MaxLines, e \in 0..(MaxLines - 1) }

InitSelect ==
    /\ active = 0
    /\ clipboard = <<>>
    /\ last_search = <<>>
    /\ status = "Ready"
    /\ steps = 0
    /\ ret = <<>>
    /\ \E b \in SelectStartBuffers :
          /\ CursorInBounds(b)
          /\ b.selection_end < Len(b.lines)
          /\ buffers = <<b>>
          /\ arg = b
    /\ last = [op |-> "init"]

DeleteSelection ==
    /\ last.op = "init"
    /\ buffers' = <<delete_selection(buffers[1])>>
    /\ steps' = steps + 1
    /\ last' = [op |-> "delete_selection"]
    /\ UNCHANGED <<active, clipboard, last_search, status, arg, ret>>

NextSelect == DeleteSelection

SpecSelect == InitSelect /\ [][NextSelect]_vars

\* C18: delete_selection removes exactly the whole lines start..end inclusive (start <=
\* end after ordering) and keeps the remaining lines in order; if that removes every
\* line the buffer becomes a single empty line; the cursor moves to line
\* min(start, last valid line), column 0; the selection is cleared and dirty is set.
C18_SelectionDeleteRemovesLines ==
    last.op = "delete_selection" =>
        LET a == buffers[1]
            start == Min(arg.selection_start, arg.selection_end)
            end == Max(arg.selection_start, arg.selection_end)
            remaining == SelectSeq([i \in DOMAIN arg.lines |-> <<i, arg.lines[i]>>],
                                   LAMBDA p : p[1] - 1 < start \/ p[1] - 1 > end)
            kept == [i \in DOMAIN remaining |-> remaining[i][2]]
        IN  /\ a.lines = IF kept = <<>> THEN <<<<>>>> ELSE kept
            /\ a.cursor_y = Min(start, Len(a.lines) - 1)
            /\ a.cursor_x = 0
            /\ ~has_selection(a)
            /\ ~a.selecting
            /\ a.dirty

\* a fixed selection made upwards from the last of three lines to the middle one, in a
\* clean buffer: the first line is left and the cursor is on it
C18_Witness ==
    /\ last.op = "delete_selection"
    /\ arg.lines = <<<<"a">>, <<SP, "a">>, <<":">>>>
    /\ arg.selection_start = 2
    /\ arg.selection_end = 1
    /\ ~arg.selecting
    /\ ~arg.dirty
    /\ buffers[1].lines = <<<<"a">>>>
    /\ buffers[1].cursor_y = 0
    /\ buffers[1].dirty

-----------------------------------------------------------------------------
(* SpecVertical: handle_input for the Down, Up and Delete keys applied to   *)
(* one buffer, from small buffers without a selection whose cursor is in    *)
(* bounds and whose preferred column is the cursor column (as after any     *)
(* horizontal move or insertion).  arg keeps the buffer before the last     *)
(* Down key; last.op is "down_up" after an Up key that follows a Down key.  *)

MaxVerticalSteps == 4  \* keys handled

VerticalStartLines ==
    { <<<<"a", "a">>, <<>>, <<"a">>, <<>>>>,
      <<<<"a", "a">>, <<"a">>, <<"a", "a", "a">>>>,
      <<<<"a">>, <<"a", "a">>>>,
      <<<<"a", "a">>>> }

VerticalStartBuffers ==
    { [Buffer EXCEPT !.lines = ls, !.cursor_y = y, !.cursor_x = x, !.preferred_x = x] :
        ls \in VerticalStartLines, y \in 0..3, x \in 0..3 }

InitVertical ==
    /\ active = 0
    /\ clipboard = <<>>
    /\ last_search = <<>>
    /\ status = "Ready"
    /\ steps = 0
    /\ ret = <<>>
    /\ arg = <<>>
    /\ \E b \in VerticalStartBuffers :
          /\ CursorInBounds(b)
          /\ buffers = <<b>>
    /\ last = [op |-> "init"]

VerticalStep(op, b, from) ==
    /\ steps < MaxVerticalSteps
    /\ buffers' = <<b>>
    /\ steps' = steps + 1
    /\ last' = [op |-> op]
    /\ arg' = from
    /\ UNCHANGED <<active, clipboard, last_search, status, ret>>

VerticalDown ==
    \E d \in Dims :
        VerticalStep("KEY_DOWN", Finish(Navigate(buffers[1], "KEY_DOWN", d[1]), d[1], d[2]),
                     buffers[1])

VerticalUp ==
    \E d \in Dims :
        VerticalStep(IF last.op = "KEY_DOWN" THEN "down_up" ELSE "KEY_UP",
                     Finish(Navigate(buffers[1], "KEY_UP", d[1]), d[1], d[2]), arg)

VerticalDelete ==
    \E d \in Dims :
        VerticalStep("delete_forward", Finish(delete_forward(buffers[1]), d[1], d[2]), arg)

NextVertical == VerticalDown \/ VerticalUp \/ VerticalDelete

SpecVertical == InitVertical /\ [][NextVertical]_vars

\* C21: where the cursor's line has a line below it, Down and then Up return the
\* cursor to the line and the column it had before, whatever the length of the line
\* below.
C21_DownUpRestoresCursor ==
    last.op = "down_up" /\ arg.cursor_y < Len(arg.lines) - 1 =>
        /\ buffers[1].cursor_y = arg.cursor_y
        /\ buffers[1].cursor_x = arg.cursor_x

-----------------------------------------------------------------------------
(* SpecDraw: draw_highlighted_line applied to one line, its spans and a     *)
(* column window; arg is what the call was given, ret the addnstr calls it  *)
(* made on the screen row, in order.                                        *)

\* style_attr: the attribute a style is drawn with (color pair and modifier)
style_attr(style) ==
    CASE style = "comment" -> "pair4_dim"
      [] style = "string" -> "pair5"
      [] style = "number" -> "pair6"
      [] style = "keyword" -> "pair7_bold"
      [] style = "builtin" -> "pair8"
      [] style \in {"defname", "classname"} -> "pair9_bold"
      [] style = "decorator" -> "pair10"
      [] OTHER -> "pair2"

\* stdscr.addnstr(y, x, str, n, attr) on the row drawn
addnstr(x, str, n, attr) == [x |-> x, str |-> str, n |-> n, attr |-> attr]

\* the body of the loop for one span if the styled segment started at the span's start
DrawSpan_unclipped(st, line, span, x, visible_start, width) ==
    LET visible_end == visible_start + width
        plain == IF st.pos < span.start
                 THEN <<addnstr(x + (st.pos - visible_start),
                                ListSlice(line, st.pos, Min(span.start, visible_end)),
                                width - (st.pos - visible_start), "pair2")>>
                 ELSE <<>>
        seg_start == span.start
        seg_end == Min(span.end, visible_end)
        styled == IF seg_start < seg_end
                  THEN <<addnstr(x + (seg_start - visible_start),
                                 ListSlice(line, seg_start, seg_end),
                                 width - (seg_start - visible_start), style_attr(span.style))>>
                  ELSE <<>>
    IN  [pos |-> Max(st.pos, seg_end), calls |-> st.calls \o plain \o styled]

\* the body of the loop for one span that is neither skipped nor ends the loop
DrawSpan(st, line, span, x, visible_start, width) ==
    LET visible_end == visible_start + width
        plain == IF st.pos < span.start
                 THEN <<addnstr(x + (st.pos - visible_start),
                                ListSlice(line, st.pos, Min(span.start, visible_end)),
                                width - (st.pos - visible_start), "pair2")>>
                 ELSE <<>>
        seg_start == Max(span.start, visible_start)
        seg_end == Min(span.end, visible_end)
        styled == IF seg_start < seg_end
                  THEN <<addnstr(x + (seg_start - visible_start),
                                 ListSlice(line, seg_start, seg_end),
                                 width - (seg_start - visible_start), style_attr(span.style))>>
                  ELSE <<>>
    IN  [pos |-> Max(st.pos, seg_end), calls |-> st.calls \o plain \o styled]

\* the loop over the spans from span i on (st is read before the span is taken)
RECURSIVE DrawLoop(_, _, _, _, _, _, _)
DrawLoop(st, line, spans, i, x, visible_start, width) ==
    IF st.pos \notin Int \/ i > Len(spans) THEN st
    ELSE IF spans[i].end <= visible_start
         THEN DrawLoop(st, line, spans, i + 1, x, visible_start, width)
    ELSE IF spans[i].start >= visible_start + width THEN st
    ELSE DrawLoop(DrawSpan(st, line, spans[i], x, visible_start, width),
                  line, spans, i + 1, x, visible_start, width)

\* the calls made once the loop has ended in state st
DrawTail(st, line, x, visible_start, width) ==
    IF st.pos < visible_start + width
    THEN st.calls \o <<addnstr(x + (st.pos - visible_start),
                               ListSlice(line, st.pos, visible_start + width),
                               width - (st.pos - visible_start), "pair2")>>
    ELSE st.calls

\* the addnstr calls of draw_highlighted_line, in order
draw_highlighted_line(x, line, spans, visible_start, width) ==
    DrawTail(DrawLoop([pos |-> visible_start, calls |-> <<>>],
                      line, spans, 1, x, visible_start, width),
             line, x, visible_start, width)

MaxDrawCol == 5    \* line length, span columns and first visible column
MaxDrawWidth == 3  \* width of the window
MaxDrawSpans == 2  \* spans of the line

DrawAlphabet == <<"a", "b", "c", "d", "e", "f", "i", "l", "n", "p">>

DrawSpanSet ==
    { TokenSpan(a, b, style) :
        a \in 0..MaxDrawCol, b \in 0..MaxDrawCol, style \in {"keyword", "string"} }

\* sorted, non-overlapping, non-empty spans
DrawSpanLists ==
    UNION { { sp \in [1..k -> DrawSpanSet] :
                /\ \A j \in 1..k : sp[j].start < sp[j].end
                /\ \A j \in 1..(k - 1) : sp[j].end <= sp[j + 1].start } :
            k \in 0..MaxDrawSpans }

InitDraw ==
    /\ active = 0
    /\ clipboard = <<>>
    /\ last_search = <<>>
    /\ status = "Ready"
    /\ steps = 0
    /\ buffers = <<Buffer>>
    /\ ret = <<>>
    /\ \E n \in 0..MaxDrawCol, spans \in DrawSpanLists, visible_start \in 0..MaxDrawCol,
          width \in 0..MaxDrawWidth, x \in {0, 6} :
           arg = [line |-> Prefix(DrawAlphabet, n), spans |-> spans,
                  visible_start |-> visible_start, width |-> width, x |-> x]
    /\ last = [op |-> "init"]

DrawLine ==
    /\ last.op = "init"
    /\ ret' = draw_highlighted_line(arg.x, arg.line, arg.spans, arg.visible_start, arg.width)
    /\ steps' = steps + 1
    /\ last' = [op |-> "draw_highlighted_line"]
    /\ UNCHANGED <<buffers, active, clipboard, last_search, status, arg>>

NextDraw == DrawLine

SpecDraw == InitDraw /\ [][NextDraw]_vars

\* draw_highlighted_line has run
Drawn == last.op = "draw_highlighted_line"

\* the characters call k puts on the screen, and the screen columns it puts them in
Written(k) == Prefix(ret[k].str, Max(ret[k].n, 0))
CellsOf(k) == { ret[k].x + j - 1 : j \in 1..Len(Written(k)) }

\* the columns of the line that lie in the window
VisibleColumns ==
    { c \in arg.visible_start..(arg.visible_start + arg.width - 1) : c < Len(arg.line) }

\* the attribute column c must be drawn with
AttrAt(c) ==
    IF \E j \in DOMAIN arg.spans : arg.spans[j].start <= c /\ c < arg.spans[j].end
    THEN style_attr(arg.spans[CHOOSE j \in DOMAIN arg.spans :
                                  arg.spans[j].start <= c /\ c < arg.spans[j].end].style)
    ELSE "pair2"

\* the characters of all the calls, in order
RECURSIVE AllWritten(_)
AllWritten(k) == IF k = 0 THEN <<>> ELSE AllWritten(k - 1) \o Written(k)

\* C31: the segments emitted cover every column of the line inside the window exactly
\* once, left to right, at screen offset column - visible_start, with the style of the
\* span the column lies in or plain; nothing else is emitted, and the text emitted is
\* line[visible_start : visible_start + width].
C31_SegmentsCoverWindow ==
    Drawn =>
        /\ \A c \in VisibleColumns :
               LET cell == arg.x + (c - arg.visible_start)
                   hits == {k \in DOMAIN ret : cell \in CellsOf(k)}
               IN  /\ Cardinality(hits) = 1
                   /\ \A k \in hits :
                          /\ Written(k)[cell - ret[k].x + 1] = arg.line[c + 1]
                          /\ ret[k].attr = AttrAt(c)
        /\ \A k \in DOMAIN ret :
               CellsOf(k) \subseteq {arg.x + (c - arg.visible_start) : c \in VisibleColumns}
        /\ \A k \in DOMAIN ret : \A j \in DOMAIN ret :
               k < j => \A a \in CellsOf(k) : \A b \in CellsOf(j) : a < b
        /\ AllWritten(Len(ret)) =
               ListSlice(arg.line, arg.visible_start, arg.visible_start + arg.width)

\* 'abcde' with a keyword span over columns 0-1 and a string span over columns 3-4, in
\* the window of columns 1-3: the keyword span is clipped on the left, the string span
\* on the right, and column 2 between them is plain
C31_Witness ==
    /\ Drawn
    /\ arg = [line |-> <<"a", "b", "c", "d", "e">>,
              spans |-> <<TokenSpan(0, 2, "keyword"), TokenSpan(3, 5, "string")>>,
              visible_start |-> 1, width |-> 3, x |-> 6]
    /\ ret = <<addnstr(6, <<"b">>, 3, "pair7_bold"),
               addnstr(7, <<"c">>, 2, "pair2"),
               addnstr(8, <<"d">>, 1, "pair5")>>

-----------------------------------------------------------------------------
(* SpecFrozen: the key events of Spec, from the states in which a file has  *)
(* been opened, lines of it were selected with F2, cursor keys and F2       *)
(* again, and the cursor was moved on: a frozen selection over any lines of *)
(* the file, the cursor anywhere.                                           *)

MaxFrozenKeys == 2  \* key events handled after the selection was frozen

FrozenStartBuffers ==
    UNION { { [Buffer EXCEPT !.lines = load_file(t), !.file_path = Path1,
                             !.saved_lines = load_file(t),
                             !.cursor_y = y, !.cursor_x = x, !.preferred_x = x,
                             !.selection_start = a, !.selection_end = b] :
                y \in 0..(Len(load_file(t)) - 1), x \in 0..MaxLen,
                a \in 0..(Len(load_file(t)) - 1), b \in 0..(Len(load_file(t)) - 1) } :
            t \in FileTexts }

InitFrozen ==
    /\ active = 0
    /\ clipboard = <<>>
    /\ last_search = <<>>
    /\ steps = MaxKeys - MaxFrozenKeys
    /\ arg = <<>>
    /\ ret = <<>>
    /\ status = "Selection fixed."
    /\ \E b \in FrozenStartBuffers :
           /\ CursorInBounds(b)
           /\ buffers = <<b>>
    /\ last = [op |-> "init"]

SpecFrozen == InitFrozen /\ [][Next]_vars

\* the selection fields of a buffer
SelectionOf(buf) == <<buf.selecting, buf.selection_start, buf.selection_end>>

\* the keys that consume a frozen selection or clear it
ConsumingOps ==
    {"clear_selection", "newline", "backspace", "delete_forward", "tab", "char", "cut",
     "delete_selection"}

\* open_flow or new_file_flow has replaced the content of the active buffer
Replaced ==
    /\ last'.op \in {"open", "new", "close_tab"}
    /\ status' \in {"Opened", "New file", "New file ready."}

\* C32: a frozen selection (selecting false, both ends set) is not changed by a cursor
\* navigation key, nor by any key other than these: F3, an edit key, cut, delete and a
\* successful open or new-file, which leave the buffer with no selection and selecting
\* false, and F2, which starts a new selection at the cursor's line.
C32_FrozenSelectionStays ==
    [][\A i \in DOMAIN buffers :
           Frozen(buffers[i]) /\ Len(buffers') >= Len(buffers) =>
               /\ last'.op \in NavKeys => SelectionOf(buffers'[i]) = SelectionOf(buffers[i])
               /\ SelectionOf(buffers'[i]) # SelectionOf(buffers[i]) =>
                      /\ i = active + 1
                      /\ \/ /\ last'.op = "select"
                            /\ SelectionOf(buffers'[i]) =
                                   <<TRUE, buffers'[i].cursor_y, buffers'[i].cursor_y>>
                         \/ /\ last'.op \in ConsumingOps \/ Replaced
                            /\ SelectionOf(buffers'[i]) = <<FALSE, None, None>>
               /\ i = active + 1 /\ (last'.op \in ConsumingOps \/ Replaced) =>
                      SelectionOf(buffers'[i]) = <<FALSE, None, None>>]_vars

\* lines 1-2 of a three-line file are frozen as the selection and the cursor has been
\* moved by two navigation keys to line 3
C32_Witness ==
    /\ steps = MaxKeys
    /\ last.op \in NavKeys
    /\ Len(Act.lines) = 3
    /\ Act.cursor_y = 2
    /\ SelectionOf(Act) = <<FALSE, 0, 1>>
    /\ ~Act.dirty

-----------------------------------------------------------------------------
(* SpecMarkdown: the edit operations of the Markdown editor                 *)
(* (markdown_editor_tui.py) applied to its EditorState, from every small    *)
(* state with an in-bounds cursor; arg is the state before the operation.   *)

\* the EditorState dataclass of the Markdown editor (its status is the variable status)
MarkdownState ==
    [lines |-> <<<<>>>>, file_path |-> None, cursor_y |-> 0, cursor_x |-> 0,
     preferred_x |-> 0, left_scroll_y |-> 0, left_scroll_x |-> 0, preview_scroll_y |-> 0,
     focus |-> "left", dirty |-> FALSE]

\* insert_char of the Markdown editor
md_insert_char(state, ch) ==
    LET line == state.lines[state.cursor_y + 1]
    IN  [state EXCEPT !.lines = ListSet(state.lines, state.cursor_y,
                                        Prefix(line, state.cursor_x) \o ch
                                            \o Suffix(line, state.cursor_x)),
                      !.cursor_x = state.cursor_x + Len(ch),
                      !.preferred_x = state.cursor_x + Len(ch),
                      !.dirty = TRUE]

\* backspace of the Markdown editor
md_backspace(state) ==
    LET line == state.lines[state.cursor_y + 1]
        moved ==
            IF state.cursor_x > 0
            THEN [state EXCEPT !.lines = ListSet(state.lines, state.cursor_y,
                                                 Prefix(line, state.cursor_x - 1)
                                                     \o Suffix(line, state.cursor_x)),
                               !.cursor_x = state.cursor_x - 1]
            ELSE IF state.cursor_y > 0
            THEN LET prev == state.lines[state.cursor_y] IN
                 [state EXCEPT !.lines = ListPop(ListSet(state.lines, state.cursor_y - 1,
                                                         prev \o line),
                                                 state.cursor_y),
                               !.cursor_x = Len(prev),
                               !.cursor_y = state.cursor_y - 1]
            ELSE state
    IN  [moved EXCEPT !.preferred_x = moved.cursor_x, !.dirty = TRUE]

\* delete_forward of the Markdown editor
md_delete_forward(state) ==
    LET line == state.lines[state.cursor_y + 1]
    IN  IF state.cursor_x < Len(line)
        THEN [state EXCEPT !.lines = ListSet(state.lines, state.cursor_y,
                                             Prefix(line, state.cursor_x)
                                                 \o Suffix(line, state.cursor_x + 1)),
                           !.dirty = TRUE]
        ELSE IF state.cursor_y < Len(state.lines) - 1
        THEN [state EXCEPT !.lines = ListPop(ListSet(state.lines, state.cursor_y,
                                                     line \o state.lines[state.cursor_y + 2]),
                                             state.cursor_y + 1),
                           !.dirty = TRUE]
        ELSE state

MaxMarkdownSteps == 2  \* operations applied

MarkdownStartStates ==
    { [MarkdownState EXCEPT !.lines = ls, !.cursor_y = y, !.cursor_x = x,
                            !.preferred_x = px, !.dirty = d] :
        ls \in EditStartLines, y \in 0..1, x \in 0..2, px \in 0..2, d \in BOOLEAN }

InitMarkdown ==
    /\ InitCommon
    /\ status = "Ready"
    /\ \E st \in MarkdownStartStates :
          /\ CursorInBounds(st)
          /\ buffers = <<st>>
    /\ last = [op |-> "init"]

MarkdownStep(op, st) ==
    /\ steps < MaxMarkdownSteps
    /\ WithinBounds(st)
    /\ buffers' = <<st>>
    /\ steps' = steps + 1
    /\ last' = [op |-> op]
    /\ arg' = buffers[1]
    /\ UNCHANGED <<active, clipboard, last_search, status, ret>>

MarkdownInsert == \E ch \in EditChars : MarkdownStep("insert_char", md_insert_char(buffers[1], ch))
MarkdownBackspace == MarkdownStep("backspace", md_backspace(buffers[1]))
MarkdownDelete == MarkdownStep("delete_forward", md_delete_forward(buffers[1]))

NextMarkdown == MarkdownInsert \/ MarkdownBackspace \/ MarkdownDelete

SpecMarkdown == InitMarkdown /\ [][NextMarkdown]_vars

\* C33: in the Markdown editor, Backspace with the cursor at line 0, column 0 leaves
\* the lines, the cursor and the dirty flag as they were, as Delete-forward at the end
\* of the last line does.
C33_MarkdownBoundaryNoOp ==
    /\ last.op = "backspace" /\ AtBufferStart(arg) =>
           /\ buffers[1].lines = arg.lines
           /\ buffers[1].cursor_y = arg.cursor_y
           /\ buffers[1].cursor_x = arg.cursor_x
           /\ buffers[1].dirty = arg.dirty
    /\ last.op = "delete_forward" /\ AtBufferEnd(arg) =>
           /\ buffers[1].lines = arg.lines
           /\ buffers[1].cursor_y = arg.cursor_y
           /\ buffers[1].cursor_x = arg.cursor_x
           /\ buffers[1].dirty = arg.dirty

-----------------------------------------------------------------------------
(* SpecClipboard: Ctrl+C and Ctrl+X from the buffers of SpecSelect (a       *)
(* selection being dragged or fixed, its start possibly past the last       *)
(* line); arg keeps the buffer before the first key.                        *)

NextClipboard == CtrlC \/ CtrlX

SpecClipboard == InitSelect /\ [][NextClipboard]_vars

\* the lines of the buffer arg that its selection covers
SelectedLines ==
    SubSeq(arg.lines, Min(arg.selection_start, arg.selection_end) + 1,
           Min(Max(arg.selection_start, arg.selection_end) + 1, Len(arg.lines)))

\* C36: with a selection (an endpoint may lie past the end of the buffer), cut_selection
\* leaves on the clipboard exactly the lines it removes from the buffer, in order, and
\* copy_selection puts the same lines on the clipboard and changes nothing of the buffer.
C36_ClipboardHoldsSelectedLines ==
    steps = 1 =>
        /\ clipboard = SelectedLines
        /\ clipboard # <<>>
        /\ last.op = "cut" =>
               \E k \in 0..(Len(arg.lines) - Len(clipboard)) :
                   /\ SubSeq(arg.lines, k + 1, k + Len(clipboard)) = clipboard
                   /\ LET rest == Prefix(arg.lines, k) \o Suffix(arg.lines, k + Len(clipboard))
                      IN  buffers[1].lines = IF rest = <<>> THEN <<<<>>>> ELSE rest
        /\ last.op = "copy" => buffers[1] = arg

\* a selection dragged from line 4 of what are now three lines up to line 2: the cut
\* takes lines 2 and 3 and leaves line 1
C36_Witness ==
    /\ steps = 1
    /\ last.op = "cut"
    /\ arg.lines = <<<<"a">>, <<SP, "a">>, <<":">>>>
    /\ arg.selection_start = 3
    /\ arg.selection_end = 1
    /\ clipboard = <<<<SP, "a">>, <<":">>>>
    /\ buffers[1].lines = <<<<"a">>>>

-----------------------------------------------------------------------------
(* SpecCleanupFlow: cleanup_flow applied to one buffer holding any of the   *)
(* line sequences of SpecCleanup, the cursor at the end of any line, dirty  *)
(* or not; arg is the buffer before, ret what cleanup_indentation returned. *)

InitCleanupFlow ==
    /\ active = 0
    /\ clipboard = <<>>
    /\ last_search = <<>>
    /\ status = "Ready"
    /\ steps = 0
    /\ \E ls \in CleanupInputs : \E y \in 0..(Len(ls) - 1), d \in BOOLEAN :
           buffers = <<[Buffer EXCEPT !.lines = ls, !.cursor_y = y,
                                      !.cursor_x = Len(ls[y + 1]),
                                      !.preferred_x = Len(ls[y + 1]), !.dirty = d]>>
    /\ arg = <<>>
    /\ ret = NoResult
    /\ last = [op |-> "init"]

CleanupFlowApply(computed, r) ==
    /\ last.op = "init"
    /\ buffers' = <<CleanupApply(buffers[1], r)>>
    /\ status' = r.message
    /\ ret' = CleanupResult(computed, r)
    /\ arg' = buffers[1]
    /\ steps' = steps + 1
    /\ last' = [op |-> "cleanup_flow"]
    /\ UNCHANGED <<active, clipboard, last_search>>

CleanupFlowDone(computed) == CleanupFlowApply(computed, CleanupWith(buffers[1].lines, computed))

CleanupFlow == CleanupFlowDone(compute_indents(buffers[1].lines))

NextCleanupFlow == CleanupFlow

SpecCleanupFlow == InitCleanupFlow /\ [][NextCleanupFlow]_vars

\* C37: cleanup_indentation returns as many lines as it is given, in the normal and in
\* the degraded mode, and output line i is input line i with its leading and trailing
\* whitespace rewritten; cleanup_flow keeps the cursor's line and sets dirty only when
\* some line changed.
C37_CleanupKeepsLinesInPlace ==
    last.op = "cleanup_flow" =>
        /\ Len(ret.cleaned) = Len(arg.lines)
        /\ \A i \in DOMAIN arg.lines : Trimmed(ret.cleaned[i]) = Trimmed(arg.lines[i])
        /\ buffers[1].lines = ret.cleaned
        /\ buffers[1].cursor_y = arg.cursor_y
        /\ buffers[1].dirty = (arg.dirty \/ ret.cleaned # arg.lines)

\* the cursor at the end of the second of three lines, which starts with a tab and is
\* rewritten to its level: three lines are returned, the cursor stays on line 2 and
\* the buffer becomes dirty
C37_Witness ==
    /\ last.op = "cleanup_flow"
    /\ arg.lines = <<<<"a", ":">>, <<TAB, "a", SP>>, <<>>>>
    /\ arg.cursor_y = 1
    /\ arg.cursor_x = 3
    /\ ~arg.dirty
    /\ buffers[1].lines = <<<<"a", ":">>, <<SP, SP, SP, SP, "a">>, <<>>>>
    /\ buffers[1].cursor_y = 1
    /\ buffers[1].dirty

-----------------------------------------------------------------------------
(* SpecFind: find_next pressed again and again with a search term set, on   *)
(* one buffer with the cursor anywhere in bounds; arg is the buffer before  *)
(* the last call, ret the set of positions the calls have put the cursor at.*)
(* SpecFindLive adds that the key keeps being pressed.                      *)

MaxFindLines == 3  \* lines of the buffer searched

FindLineSet ==
    { <<>>, <<"a", "a", "a">>, <<":", "a">>, <<"a", ":", SP, "a", "a">> }

FindQueries == {<<"a">>, <<"a", "a">>, <<":", "a">>}

InitFind ==
    /\ active = 0
    /\ clipboard = <<>>
    /\ last_search \in FindQueries
    /\ status = "Ready"
    /\ steps = 0
    /\ ret = {}
    /\ arg = <<>>
    /\ \E n \in 1..MaxFindLines : \E ls \in [1..n -> FindLineSet] :
          \E y \in 0..(n - 1) : \E x \in 0..Len(ls[y + 1]) :
              buffers = <<[Buffer EXCEPT !.lines = ls, !.cursor_y = y,
                                         !.cursor_x = x, !.preferred_x = x]>>
    /\ last = [op |-> "init"]

FindApply(r) ==
    /\ buffers' = <<r[1]>>
    /\ status' = r[2]
    /\ arg' = buffers[1]
    /\ ret' = IF r[2] = "not found" THEN ret
              ELSE ret \cup {<<r[1].cursor_y, r[1].cursor_x>>}
    /\ last' = [op |-> "find_next"]
    /\ UNCHANGED <<active, clipboard, last_search, steps>>

FindNext == FindApply(find_next(buffers[1], last_search))

NextFind == FindNext

SpecFind == InitFind /\ [][NextFind]_vars

SpecFindLive == SpecFind /\ WF_vars(FindNext)

\* the term occurs in line i (0-based) of the buffer at column c
OccursIn(buf, i, c) ==
    /\ i < Len(buf.lines)
    /\ c + Len(last_search) <= Len(buf.lines[i + 1])
    /\ SubSeq(buf.lines[i + 1], c + 1, c + Len(last_search)) = last_search

Occurrences(buf) ==
    { p \in (0..(MaxFindLines - 1)) \X (0..MaxLen) : OccursIn(buf, p[1], p[2]) }

\* position p comes before position q in the buffer
Before(p, q) == p[1] < q[1] \/ (p[1] = q[1] /\ p[2] < q[2])

\* the first of the positions of S
FirstOf(S) == CHOOSE p \in S : \A q \in S : p = q \/ Before(p, q)

\* the occurrence that cyclically follows the cursor of buf
NextOccurrence(buf) ==
    LET after == { p \in Occurrences(buf) : Before(<<buf.cursor_y, buf.cursor_x>>, p) }
    IN  IF after # {} THEN FirstOf(after) ELSE FirstOf(Occurrences(buf))

\* what one call of find_next must have done
FoundNext ==
    last.op = "find_next" =>
        IF Occurrences(arg) = {} THEN buffers[1] = arg
        ELSE /\ buffers[1] = [arg EXCEPT !.cursor_y = NextOccurrence(arg)[1],
                                         !.cursor_x = NextOccurrence(arg)[2],
                                         !.preferred_x = NextOccurrence(arg)[2]]
             /\ CursorInBounds(buffers[1])

\* C38: with a non-empty search term, find_next moves the cursor to the start of the
\* cyclically next occurrence strictly after the cursor (to the end of the buffer, then
\* from the first line on), leaves cursor and buffer unchanged if the term does not
\* occur, and sets an in-bounds cursor; pressed again and again it eventually visits
\* every occurrence in the buffer.
C38_FindNextVisitsEveryOccurrence ==
    /\ []FoundNext
    /\ <>(Occurrences(buffers[1]) \subseteq ret)

\* 'aaa' searched for 'aa' from its second occurrence, at column 1, the last in the
\* buffer: find_next wraps to the occurrence at column 0, which overlaps it
C38_Witness ==
    /\ last.op = "find_next"
    /\ last_search = <<"a", "a">>
    /\ arg.lines = <<<<"a", "a", "a">>>>
    /\ arg.cursor_x = 1
    /\ status = "Wrapped"
    /\ buffers[1].cursor_y = 0
    /\ buffers[1].cursor_x = 0

====
